---- MODULE Spec2Model ----
(***************************************************************************)
(* Model of the asynchronous logging core of tr1v3r/pkg (package log):     *)
(* ConsoleHandler / FileHandler / SyncConsoleHandler and baseLogger.       *)
(*                                                                         *)
(* A handler owns a buffered channel ch, a one-shot signal channel closed, *)
(* a sync.Once that starts the drain goroutine serve, and a sink.  The     *)
(* goroutines of the model are the producers (callers of Output), the      *)
(* drain goroutine (serve) and one caller goroutine that runs Flush and    *)
(* Close.  Every channel operation and every sink write is one step.       *)
(***************************************************************************)
EXTENDS Integers, Sequences, FiniteSets, TLC

(* ---- bounds of the model ---- *)
NumProducers == 2
MsgsPerProducer == 2
\* capacity of h.ch; the source uses 8192 (console.go:32, file handler :90)
ChanCap == 2
\* total number of Output calls in one run
MaxOutputCalls == 4
\* number of Flush/Close calls the caller goroutine makes
MaxCalls == 2
MaxHandlers == 3
MaxLoggerCloses == 2
\* number of baseLogger fan-out calls (log, SetLevel, SetOutput, ...) in one run
MaxLoggerOps == 2
\* number of FileHandler steps (messages consumed, SetOutput, AddOutputs) in one run
MaxFileOps == 2
\* number of failing writes in one run
MaxWriteErrors == 2
\* CircuitBreaker: number of client goroutines, calls in one run, clock range
\* and the largest threshold configured
NumClients == 2
MaxCbOps == 5
MaxTime == 3
MaxThreshold == 2
\* the RWMutex: number of goroutines calling methods, and of calls in one run
NumLockers == 2
MaxLockOps == 3
\* WithRetry: the largest MaxAttempts configured
MaxRetryAttempts == 3

(* ---- level.go ---- *)
TraceLevel == 0
DebugLevel == 1
InfoLevel == 2
WarnLevel == 3
ErrorLevel == 4
FatalLevel == 5
PanicLevel == 6
Levels == TraceLevel..PanicLevel

Producers == 1..NumProducers
NoMsg == <<0, 0>>
Kinds == {"console", "file", "sync"}
AsyncKinds == {"console", "file"}

VARIABLES
  kind,          \* which handler type was constructed
  cfgLevel,      \* the level handed to the constructor
  level,         \* h.level
  ch,            \* h.ch: buffered messages, oldest first
  chClosed,      \* close(h.ch) has run
  closed,        \* h.closed has been closed (the one-shot signal)
  started,       \* h.once has fired: go h.serve() was issued
  serveStarts,   \* number of serve goroutines started
  servePc,       \* position of the serve goroutine
  serveMsg,      \* message serve has received and not yet written
  sink,          \* what h.out has received, in write order
  fileClosed,    \* FileHandler: file.Close() has run on h.out
  fileCloseCalls,\* FileHandler: number of file.Close() calls on h.out
  lateWrites,    \* writes attempted on the file after it was closed
  pc,            \* producer p's position inside Output
  calls,         \* number of Output calls producer p has started
  plvl,          \* level of producer p's current/last Output call
  result,        \* outcome of producer p's calls, per call index
  afterClose,    \* producer p's current call started after a Close returned
  enq,           \* history: messages successfully sent on h.ch
  ctlPc,         \* position of the caller goroutine (Flush / Close)
  ctlI,          \* Flush's loop counter i
  ctlMsg,        \* message Flush has received and not yet written
  inClose,       \* the running Flush was called from Close
  ctlCalls,      \* number of Flush/Close calls started
  closeCalls,    \* number of Close calls started
  closeReturns,  \* number of Close calls that returned
  closeErr,      \* a Close call returned a non-nil error
  enqAtClose,    \* history: enq when the first Close was invoked
  allDoneAtClose,\* history: every Output call had returned at that moment
  flushEnq,      \* history: enq when the current/last Flush was called
  flushClean,    \* history: no Output call overlapped that Flush
  flushDone,     \* history: that Flush has returned
  handlers,      \* baseLogger.handlers: per handler, what its Close returns
  hCloseCalls,   \* per handler, number of Close calls received
  lgPc,          \* position inside baseLogger.Close
  lgIdx,         \* loop index of baseLogger.Close
  lgErrors,      \* the local slice errors
  lgRet,         \* what the last baseLogger.Close returned
  lgCalls,       \* number of baseLogger.Close calls started
  lgLevel,       \* baseLogger.level
  lgReq,         \* the baseLogger method being executed, with its arguments
  hLog,          \* handler methods invoked by that call, in invocation order
  lgOps,         \* number of baseLogger fan-out calls started
  fhRotation,    \* FileHandler.rotation
  fhNow,         \* the last reading of time.Now()
  fhOut,         \* FileHandler.out: is it the *os.File, and where writes go
  fhFilePath,    \* FileHandler.filePath (the name inside logDir)
  fhRotationTime,     \* FileHandler.rotationTime
  fhNextRotationTime, \* FileHandler.nextRotationTime
  fhOpen,        \* the log files that are open
  fhPc,          \* position of the FileHandler's serve goroutine
  fhOps,         \* number of FileHandler steps taken
  fhT0,          \* history: when NewFileHandler opened the first file
  fhExp,         \* history: the destinations asked for by SetOutput / AddOutputs
  fhCheck,       \* history: the last tryRotate call and its outcome
  fhWrite,       \* history: where the last write went
  attempts,      \* history: serve's write attempts and whether each succeeded
  diag,          \* number of write errors reported on os.Stderr
  fmtIn,         \* the arguments of the TextFormatter.Format call
  fmtOut,        \* what Format returned, as the pieces written to the builder
  fmtDone,       \* Format has returned
  cbState,       \* CircuitBreaker.state
  failureCount,  \* CircuitBreaker.failureCount
  successCount,  \* CircuitBreaker.successCount
  lastFailure,   \* CircuitBreaker.lastFailure
  failureThreshold, \* CircuitBreaker.failureThreshold
  successThreshold, \* CircuitBreaker.successThreshold
  openTimeout,   \* CircuitBreaker.openTimeout
  cbNow,         \* the clock
  cPc,           \* client c's position inside Allow / Execute
  cOp,           \* the method client c called last
  cRet,          \* what that call returned
  cChk,          \* history: what client c's last Allow check saw
  cFn,           \* history: client c's last call invoked fn
  cbOps,         \* number of CircuitBreaker calls started
  streak,        \* history: failures recorded in Closed since the last success
  hoSucc,        \* history: successes recorded since HalfOpen was entered
  lastRec,       \* history: the last RecordResult call and its effect
  rMaxAttempts,  \* RetryConfig.MaxAttempts
  rRetryOn,      \* RetryConfig.RetryOnStatus
  rPc,           \* position inside WithRetry
  rAttempt,      \* the loop variable attempt
  rLast,         \* lastStatusCode, lastContent and lastErr
  rRet,          \* what WithRetry returned
  rOutcomes,     \* history: what each call of fn returned
  mu,            \* h.mu: the goroutine holding the write lock (0: none) and the readers
  lkPc,          \* goroutine g's position inside the method it called
  lkOp,          \* the method goroutine g called last
  lkArg,         \* its argument
  lkLevel,       \* h.level
  lkOut,         \* h.out, as the names of the writers it stands for
  lkFilePath,    \* FileHandler.filePath, as the number of the file
  lkOps,         \* number of method calls started
  nmIn,          \* zone offset, rotation, open time t0 and a later time t
  nmOut,         \* nextRotationTime and the file names at t0, at nextRotationTime and at t
  nmDone         \* these have been computed

handlerVars == <<kind, cfgLevel, level, ch, chClosed, closed, started, serveStarts, servePc,
                 serveMsg, sink, fileClosed, fileCloseCalls, lateWrites>>
producerVars == <<pc, calls, plvl, result, afterClose, enq>>
ctlVars == <<ctlPc, ctlI, ctlMsg, inClose, ctlCalls, closeCalls, closeReturns,
             closeErr, enqAtClose, allDoneAtClose, flushEnq, flushClean, flushDone>>
loggerVars == <<handlers, hCloseCalls, lgPc, lgIdx, lgErrors, lgRet, lgCalls>>
fanVars == <<lgLevel, lgReq, hLog, lgOps>>
\* the state outside the handler and baseLogger.Close
fileVars == <<fhRotation, fhNow, fhOut, fhFilePath, fhRotationTime, fhNextRotationTime,
              fhOpen, fhPc, fhOps, fhT0, fhExp, fhCheck, fhWrite>>
errVars == <<attempts, diag>>
fmtVars == <<fmtIn, fmtOut, fmtDone>>
cbVars == <<cbState, failureCount, successCount, lastFailure, failureThreshold,
            successThreshold, openTimeout, cbNow, cPc, cOp, cRet, cChk, cFn, cbOps,
            streak, hoSucc, lastRec>>
retryVars == <<rMaxAttempts, rRetryOn, rPc, rAttempt, rLast, rRet, rOutcomes>>
lockVars == <<mu, lkPc, lkOp, lkArg, lkLevel, lkOut, lkFilePath, lkOps>>
nameVars == <<nmIn, nmOut, nmDone>>
extVars == <<fanVars, fileVars, errVars, fmtVars, cbVars, retryVars, lockVars, nameVars>>
vars == <<handlerVars, producerVars, ctlVars, loggerVars, extVars>>
\* what each further subsystem leaves alone
fanFrame == <<handlerVars, producerVars, ctlVars, hCloseCalls, lgErrors, lgRet,
              lgCalls, fileVars, errVars, fmtVars, cbVars, retryVars, lockVars, nameVars>>
fileFrame == <<handlerVars, producerVars, ctlVars, loggerVars, fanVars, errVars, fmtVars, cbVars, retryVars, lockVars, nameVars>>
fmtFrame == <<handlerVars, producerVars, ctlVars, loggerVars, fanVars, fileVars, errVars, cbVars, retryVars, lockVars, nameVars>>
cbFrame == <<handlerVars, producerVars, ctlVars, loggerVars, fanVars, fileVars, errVars,
             fmtVars, retryVars, lockVars, nameVars>>
retryFrame == <<handlerVars, producerVars, ctlVars, loggerVars, fanVars, fileVars,
                errVars, fmtVars, cbVars, lockVars, nameVars>>
lockFrame == <<handlerVars, producerVars, ctlVars, loggerVars, fanVars, fileVars,
               errVars, fmtVars, cbVars, retryVars, nameVars>>
nameFrame == <<handlerVars, producerVars, ctlVars, loggerVars, fanVars, fileVars,
               errVars, fmtVars, cbVars, retryVars, lockVars>>
errFrame == <<producerVars, ctlVars, loggerVars, fanVars, fileVars, fmtVars, cbVars, retryVars, lockVars, nameVars>>

Lockers == 1..NumLockers

Range(s) == {s[i] : i \in 1..Len(s)}

(* ---- constructors ---- *)
\* NewConsoleHandler(level) / NewSyncConsoleHandler(level): level as given
NewConsoleHandler(l) == l
NewSyncConsoleHandler(l) == l
\* NewFileHandler(config): "if config.Level == 0 { config.Level = InfoLevel }"
NewFileHandler(l) == IF l = 0 THEN InfoLevel ELSE l

ConstructedLevel(k, l) ==
  CASE k = "console" -> NewConsoleHandler(l)
    [] k = "sync" -> NewSyncConsoleHandler(l)
    [] k = "file" -> NewFileHandler(l)

\* baseLogger idle, no handlers of interest
LoggerIdle(hs) ==
  /\ handlers = hs
  /\ hCloseCalls = [i \in 1..Len(hs) |-> 0]
  /\ lgPc = "idle"
  /\ lgIdx = 0
  /\ lgErrors = <<>>
  /\ lgRet = [kind |-> "none", Errors |-> <<>>]
  /\ lgCalls = 0

\* the zero time.Time, 0001-01-01 00:00:00 UTC
ZeroTime == [d |-> 0 - 719162, s |-> 0]
NoCheck == [t |-> ZeroTime, t0 |-> ZeroTime, rotated |-> FALSE,
            name |-> [base |-> "", stamp |-> <<>>, ext |-> ""],
            due |-> FALSE, err |-> FALSE, openOk |-> TRUE, retry |-> FALSE]
NoWrite == [dests |-> {}, exp |-> {}, t |-> ZeroTime, next |-> ZeroTime]
StateClosed == 0
StateOpen == 1
StateHalfOpen == 2
Clients == 1..NumClients
NoChk == [state |-> StateClosed, since |-> 0]
NoRec == [pre |-> StateClosed, success |-> TRUE, post |-> StateClosed, fc |-> 0, sc |-> 0]
\* no CircuitBreaker has been constructed
CbIdle ==
  /\ cbState = StateClosed
  /\ failureCount = 0
  /\ successCount = 0
  /\ lastFailure = 0
  /\ failureThreshold = 0
  /\ successThreshold = 0
  /\ openTimeout = 0
  /\ cbNow = 0
  /\ cPc = [c \in Clients |-> "none"]
  /\ cOp = [c \in Clients |-> "none"]
  /\ cRet = [c \in Clients |-> "none"]
  /\ cChk = [c \in Clients |-> NoChk]
  /\ cFn = [c \in Clients |-> FALSE]
  /\ cbOps = 0
  /\ streak = 0
  /\ hoSucc = 0
  /\ lastRec = NoRec

\* the zero values of WithRetry's locals and results
NoResult == [status |-> 0, content |-> 0, err |-> "nil"]
\* WithRetry has not been called
RetryIdle ==
  /\ rMaxAttempts = 0
  /\ rRetryOn = {}
  /\ rPc = "none"
  /\ rAttempt = 0
  /\ rLast = NoResult
  /\ rRet = NoResult
  /\ rOutcomes = <<>>

NoFmt == [color |-> FALSE, level |-> 0,
          ctx |-> [nil |-> TRUE, set |-> FALSE, isString |-> FALSE, id |-> ""],
          format |-> <<>>, args |-> <<>>, now |-> ""]
\* Format has not been called
FmtIdle ==
  /\ fmtIn = NoFmt
  /\ fmtOut = <<>>
  /\ fmtDone = FALSE

\* nothing has been written yet
ErrIdle ==
  /\ attempts = <<>>
  /\ diag = 0

\* no FileHandler has been constructed
FileIdle ==
  /\ fhRotation = 0
  /\ fhNow = ZeroTime
  /\ fhOut = [isFile |-> FALSE, dests |-> {}]
  /\ fhFilePath = NoCheck.name
  /\ fhRotationTime = ZeroTime
  /\ fhNextRotationTime = ZeroTime
  /\ fhOpen = {}
  /\ fhPc = "none"
  /\ fhOps = 0
  /\ fhT0 = ZeroTime
  /\ fhExp = {}
  /\ fhCheck = NoCheck
  /\ fhWrite = NoWrite

NoNames == [next |-> ZeroTime, name0 |-> NoCheck.name, nameNext |-> NoCheck.name,
            nameT |-> NoCheck.name]
\* no file name has been computed
NameIdle ==
  /\ nmIn = [off |-> 0, rot |-> 0, t0 |-> ZeroTime, t |-> ZeroTime]
  /\ nmOut = NoNames
  /\ nmDone = FALSE

\* no method that takes h.mu has been called
LockIdle ==
  /\ mu = [writer |-> 0, readers |-> {}]
  /\ lkPc = [g \in Lockers |-> "idle"]
  /\ lkOp = [g \in Lockers |-> "none"]
  /\ lkArg = [g \in Lockers |-> 0]
  /\ lkLevel = InfoLevel
  /\ lkOut = {}
  /\ lkFilePath = 0
  /\ lkOps = 0

\* no baseLogger method has been called; NewLogger sets level to InfoLevel
NoReq == [method |-> "none", level |-> 0 - 1, ctx |-> "none", arg |-> <<>>]

FanIdle ==
  /\ lgLevel = InfoLevel
  /\ lgReq = NoReq
  /\ hLog = <<>>
  /\ lgOps = 0

InitHandler(ks, ls) ==
  /\ kind \in ks
  /\ cfgLevel \in ls
  /\ level = ConstructedLevel(kind, cfgLevel)
  /\ ch = <<>>
  /\ chClosed = FALSE
  /\ closed = FALSE
  /\ started = FALSE
  /\ serveStarts = 0
  /\ servePc = "none"
  /\ serveMsg = NoMsg
  /\ sink = <<>>
  /\ fileClosed = FALSE
  /\ fileCloseCalls = 0
  /\ lateWrites = 0
  /\ pc = [p \in Producers |-> "idle"]
  /\ calls = [p \in Producers |-> 0]
  /\ plvl = [p \in Producers |-> 0]
  /\ result = [p \in Producers |-> <<>>]
  /\ afterClose = [p \in Producers |-> FALSE]
  /\ enq = <<>>
  /\ ctlPc = "idle"
  /\ ctlI = 0
  /\ ctlMsg = NoMsg
  /\ inClose = FALSE
  /\ ctlCalls = 0
  /\ closeCalls = 0
  /\ closeReturns = 0
  /\ closeErr = FALSE
  /\ enqAtClose = <<>>
  /\ allDoneAtClose = FALSE
  /\ flushEnq = <<>>
  /\ flushClean = FALSE
  /\ flushDone = FALSE

Init ==
  /\ InitHandler(AsyncKinds, {InfoLevel})
  /\ LoggerIdle(<<>>)
  /\ FanIdle
  /\ LockIdle
  /\ NameIdle
  /\ FileIdle
  /\ ErrIdle
  /\ FmtIdle
  /\ CbIdle
  /\ RetryIdle

(* ---- Write: h.out.Write(p) under the read lock ---- *)
\* An *os.File that has been closed rejects the write with an error, which the
\* callers report on stderr and otherwise ignore.
SinkAfterWrite(m) ==
  IF kind = "file" /\ fileClosed THEN sink ELSE Append(sink, m)

LateAfterWrite ==
  IF kind = "file" /\ fileClosed THEN lateWrites + 1 ELSE lateWrites

Write(m) ==
  /\ sink' = SinkAfterWrite(m)
  /\ lateWrites' = LateAfterWrite

\* an unrecovered panic in any goroutine ends the process
Panicked == ctlPc = "panic" \/ \E p \in Producers : pc[p] = "panic"

CurMsg(p) == <<p, calls[p]>>

RECURSIVE SumCalls(_)
SumCalls(n) == IF n = 0 THEN 0 ELSE calls[n] + SumCalls(n - 1)

\* producer p may start another Output call
MayCall(p) ==
  /\ pc[p] = "idle"
  /\ calls[p] < MsgsPerProducer
  /\ SumCalls(NumProducers) < MaxOutputCalls

\* a Flush call made by the caller goroutine itself is running
InFlush == ctlPc \in {"flush", "flushWrite"} /\ ~inClose

(* ---- Output (ConsoleHandler / FileHandler) ---- *)
\* mutation: every Output call issues go h.serve()
ServeStartsEveryCall == serveStarts + 1
\* h.once.Do(func() { go h.serve() }): the function runs on the first call only
ServeStartsAfterOnce == IF started THEN serveStarts ELSE serveStarts + 1

\* h.once.Do(func() { go h.serve() }); if level < h.level { return }; format
OutputStart(p, lvl) ==
  /\ ~Panicked
  /\ kind \in AsyncKinds
  /\ MayCall(p)
  /\ started' = TRUE
  /\ serveStarts' = ServeStartsAfterOnce
  /\ servePc' = IF started THEN servePc ELSE "recv"
  /\ calls' = [calls EXCEPT ![p] = @ + 1]
  /\ plvl' = [plvl EXCEPT ![p] = lvl]
  /\ afterClose' = [afterClose EXCEPT ![p] = closeReturns > 0]
  /\ IF lvl < level
       THEN /\ result' = [result EXCEPT ![p] = Append(@, "filtered")]
            /\ pc' = pc
       ELSE /\ result' = result
            /\ pc' = [pc EXCEPT ![p] = "select"]
  /\ flushClean' = (flushClean /\ ~InFlush)
  /\ UNCHANGED <<kind, cfgLevel, level, ch, chClosed, closed, serveMsg, sink,
                 fileClosed, fileCloseCalls, lateWrites, enq>>
  /\ UNCHANGED <<ctlPc, ctlI, ctlMsg, inClose, ctlCalls, closeCalls, closeReturns,
                 closeErr, enqAtClose, allDoneAtClose, flushEnq, flushDone>>
  /\ UNCHANGED <<loggerVars, extVars>>

\* select case h.ch <- msg, channel open and not full: the message is queued
OutputSend(p) ==
  /\ ~Panicked
  /\ pc[p] = "select"
  /\ ~chClosed
  /\ Len(ch) < ChanCap
  /\ ch' = Append(ch, CurMsg(p))
  /\ enq' = Append(enq, CurMsg(p))
  /\ result' = [result EXCEPT ![p] = Append(@, "queued")]
  /\ pc' = [pc EXCEPT ![p] = "idle"]
  /\ UNCHANGED <<kind, cfgLevel, level, chClosed, closed, started, serveStarts, servePc,
                 serveMsg, sink, fileClosed, fileCloseCalls, lateWrites>>
  /\ UNCHANGED <<calls, plvl, afterClose>>
  /\ UNCHANGED <<ctlVars, loggerVars, extVars>>

\* select case h.ch <- msg on a closed channel: the send proceeds by panicking
\* ("send on closed channel"), whether the goroutine was already blocked in the
\* select or the runtime polls this case first
OutputSendClosed(p) ==
  /\ ~Panicked
  /\ pc[p] = "select"
  /\ chClosed
  /\ result' = [result EXCEPT ![p] = Append(@, "panic")]
  /\ pc' = [pc EXCEPT ![p] = "panic"]
  /\ UNCHANGED <<handlerVars, calls, plvl, afterClose, enq, ctlVars, loggerVars, extVars>>

\* select case <-h.closed: the message is dropped
OutputDrop(p) ==
  /\ ~Panicked
  /\ pc[p] = "select"
  /\ closed
  /\ result' = [result EXCEPT ![p] = Append(@, "dropped")]
  /\ pc' = [pc EXCEPT ![p] = "idle"]
  /\ UNCHANGED <<handlerVars, calls, plvl, afterClose, enq, ctlVars, loggerVars, extVars>>

(* ---- Output (SyncConsoleHandler): filter, format and write in one call ---- *)
SyncOutput(p, lvl) ==
  /\ ~Panicked
  /\ kind = "sync"
  /\ MayCall(p)
  /\ calls' = [calls EXCEPT ![p] = @ + 1]
  /\ plvl' = [plvl EXCEPT ![p] = lvl]
  /\ afterClose' = [afterClose EXCEPT ![p] = closeReturns > 0]
  /\ IF lvl < level
       THEN /\ result' = [result EXCEPT ![p] = Append(@, "filtered")]
            /\ sink' = sink
       ELSE /\ result' = [result EXCEPT ![p] = Append(@, "written")]
            /\ sink' = Append(sink, <<p, calls[p] + 1>>)
  /\ UNCHANGED <<kind, cfgLevel, level, ch, chClosed, closed, started, serveStarts, servePc,
                 serveMsg, fileClosed, fileCloseCalls, lateWrites>>
  /\ UNCHANGED <<pc, enq, ctlVars, loggerVars, extVars>>

(* ---- serve: for msg := range h.ch { h.Write(msg) }; h.close() ---- *)
serveRecv ==
  /\ ~Panicked
  /\ servePc = "recv"
  /\ ch # <<>>
  /\ serveMsg' = Head(ch)
  /\ ch' = Tail(ch)
  /\ servePc' = "write"
  /\ UNCHANGED <<kind, cfgLevel, level, chClosed, closed, started, serveStarts, sink,
                 fileClosed, fileCloseCalls, lateWrites>>
  /\ UNCHANGED <<producerVars, ctlVars, loggerVars, extVars>>

\* h.Write(msg) of the message in hand (FileHandler.serve calls tryRotate first,
\* which leaves an already open file alone while no rotation boundary has passed)
serveWrite ==
  /\ ~Panicked
  /\ servePc = "write"
  /\ Write(serveMsg)
  /\ serveMsg' = NoMsg
  /\ servePc' = "recv"
  /\ UNCHANGED <<kind, cfgLevel, level, ch, chClosed, closed, started, serveStarts,
                 fileClosed, fileCloseCalls>>
  /\ UNCHANGED <<producerVars, ctlVars, loggerVars, extVars>>

\* the range loop ends when the channel is closed and drained
serveRangeEnd ==
  /\ ~Panicked
  /\ servePc = "recv"
  /\ ch = <<>>
  /\ chClosed
  /\ servePc' = "close"
  /\ UNCHANGED <<kind, cfgLevel, level, ch, chClosed, closed, started, serveStarts, serveMsg,
                 sink, fileClosed, fileCloseCalls, lateWrites>>
  /\ UNCHANGED <<producerVars, ctlVars, loggerVars, extVars>>

\* mutation: h.close() leaves h.closed as it is
closeNoSignal == closed
\* h.close(): closeOnce.Do(func() { close(h.closed) }); the value of closed after it
close == TRUE

\* h.close(), then serve returns
serveClose ==
  /\ ~Panicked
  /\ servePc = "close"
  /\ closed' = close
  /\ servePc' = "done"
  /\ UNCHANGED <<kind, cfgLevel, level, ch, chClosed, started, serveStarts, serveMsg,
                 sink, fileClosed, fileCloseCalls, lateWrites>>
  /\ UNCHANGED <<producerVars, ctlVars, loggerVars, extVars>>

(* ---- Flush ---- *)
\* where Flush returns to: its caller, or the rest of Close
FlushReturnPc == IF inClose THEN "closeWait" ELSE "idle"

\* the caller goroutine calls h.Flush() (ConsoleHandler first yields with
\* runtime.Gosched(), which schedules nothing in particular)
FlushCall ==
  /\ ~Panicked
  /\ kind \in AsyncKinds
  /\ ctlPc = "idle"
  /\ ctlCalls < MaxCalls
  /\ ctlCalls' = ctlCalls + 1
  /\ ctlPc' = "flush"
  /\ ctlI' = 0
  /\ inClose' = FALSE
  /\ flushEnq' = enq
  /\ flushClean' = (\A p \in Producers : pc[p] = "idle")
  /\ flushDone' = FALSE
  /\ UNCHANGED <<ctlMsg, closeCalls, closeReturns, closeErr, enqAtClose,
                 allDoneAtClose>>
  /\ UNCHANGED <<handlerVars, producerVars, loggerVars, extVars>>

\* select case msg, ok := <-h.ch with ok = true
FlushRecv ==
  /\ ~Panicked
  /\ ctlPc = "flush"
  /\ ch # <<>>
  /\ ctlMsg' = Head(ch)
  /\ ch' = Tail(ch)
  /\ ctlPc' = "flushWrite"
  /\ UNCHANGED <<kind, cfgLevel, level, chClosed, closed, started, serveStarts, servePc,
                 serveMsg, sink, fileClosed, fileCloseCalls, lateWrites>>
  /\ UNCHANGED <<ctlI, inClose, ctlCalls, closeCalls, closeReturns, closeErr,
                 enqAtClose, allDoneAtClose, flushEnq, flushClean, flushDone>>
  /\ UNCHANGED <<producerVars, loggerVars, extVars>>

\* mutation: the drain loop of Flush has no bound
FlushLoopUnbounded == "flush"
\* for i := 0; i < cap(h.ch); i++: where Flush goes after the write of iteration i
FlushLoopPc == IF ctlI + 1 < ChanCap THEN "flush" ELSE FlushReturnPc

\* h.Write(msg); i++; the loop ends after cap(h.ch) iterations
FlushWrite ==
  /\ ~Panicked
  /\ ctlPc = "flushWrite"
  /\ Write(ctlMsg)
  /\ ctlMsg' = NoMsg
  /\ ctlI' = ctlI + 1
  /\ ctlPc' = FlushLoopPc
  /\ flushDone' = (flushDone \/ (ctlI + 1 >= ChanCap /\ ~inClose))
  /\ UNCHANGED <<kind, cfgLevel, level, ch, chClosed, closed, started, serveStarts, servePc,
                 serveMsg, fileClosed, fileCloseCalls>>
  /\ UNCHANGED <<inClose, ctlCalls, closeCalls, closeReturns, closeErr,
                 enqAtClose, allDoneAtClose, flushEnq, flushClean>>
  /\ UNCHANGED <<producerVars, loggerVars, extVars>>

\* select case msg, ok := <-h.ch with ok = false: h.close(); return
FlushChanClosed ==
  /\ ~Panicked
  /\ ctlPc = "flush"
  /\ ch = <<>>
  /\ chClosed
  /\ closed' = close
  /\ ctlPc' = FlushReturnPc
  /\ flushDone' = (flushDone \/ ~inClose)
  /\ UNCHANGED <<kind, cfgLevel, level, ch, chClosed, started, serveStarts, servePc,
                 serveMsg, sink, fileClosed, fileCloseCalls, lateWrites>>
  /\ UNCHANGED <<ctlI, ctlMsg, inClose, ctlCalls, closeCalls, closeReturns,
                 closeErr, enqAtClose, allDoneAtClose, flushEnq, flushClean>>
  /\ UNCHANGED <<producerVars, loggerVars, extVars>>

\* select default: nothing buffered, return
FlushDefault ==
  /\ ~Panicked
  /\ ctlPc = "flush"
  /\ ch = <<>>
  /\ ~chClosed
  /\ ctlPc' = FlushReturnPc
  /\ flushDone' = (flushDone \/ ~inClose)
  /\ UNCHANGED <<ctlI, ctlMsg, inClose, ctlCalls, closeCalls, closeReturns,
                 closeErr, enqAtClose, allDoneAtClose, flushEnq, flushClean>>
  /\ UNCHANGED <<handlerVars, producerVars, loggerVars, extVars>>

(* ---- Close ---- *)
\* close(h.ch); h.Flush() ...   close of a closed channel panics
CloseCall ==
  /\ ~Panicked
  /\ kind \in AsyncKinds
  /\ ctlPc = "idle"
  /\ ctlCalls < MaxCalls
  /\ ctlCalls' = ctlCalls + 1
  /\ closeCalls' = closeCalls + 1
  /\ IF chClosed
       THEN /\ ctlPc' = "panic"
            /\ UNCHANGED <<chClosed, ctlI, inClose>>
       ELSE /\ chClosed' = TRUE
            /\ ctlPc' = "flush"
            /\ ctlI' = 0
            /\ inClose' = TRUE
  /\ enqAtClose' = IF closeCalls = 0 THEN enq ELSE enqAtClose
  /\ allDoneAtClose' = IF closeCalls = 0
                         THEN \A p \in Producers :
                                pc[p] = "idle" /\ calls[p] = MsgsPerProducer
                         ELSE allDoneAtClose
  /\ UNCHANGED <<kind, cfgLevel, level, ch, closed, started, serveStarts, servePc,
                 serveMsg, sink, fileClosed, fileCloseCalls, lateWrites>>
  /\ UNCHANGED <<ctlMsg, closeReturns, closeErr, flushEnq, flushClean, flushDone>>
  /\ UNCHANGED <<producerVars, loggerVars, extVars>>

\* <-h.closed; ConsoleHandler: return nil.  FileHandler: h.out is the *os.File,
\* return file.Close() (an error if the file is already closed)
CloseReturn ==
  /\ ~Panicked
  /\ ctlPc = "closeWait"
  /\ closed
  /\ ctlPc' = "idle"
  /\ inClose' = FALSE
  /\ closeReturns' = closeReturns + 1
  /\ IF kind = "file"
       THEN /\ fileCloseCalls' = fileCloseCalls + 1
            /\ fileClosed' = TRUE
            /\ closeErr' = (closeErr \/ fileClosed)
       ELSE UNCHANGED <<fileCloseCalls, fileClosed, closeErr>>
  /\ UNCHANGED <<kind, cfgLevel, level, ch, chClosed, closed, started, serveStarts, servePc,
                 serveMsg, sink, lateWrites>>
  /\ UNCHANGED <<ctlI, ctlMsg, ctlCalls, closeCalls, enqAtClose, allDoneAtClose,
                 flushEnq, flushClean, flushDone>>
  /\ UNCHANGED <<producerVars, loggerVars, extVars>>

(* ---- the handler as a system of goroutines ---- *)
\* levels the producers of Spec log at: one below and one at the threshold
SpecLevels == {DebugLevel, InfoLevel}

Next ==
  \/ \E p \in Producers : \E lvl \in SpecLevels : OutputStart(p, lvl)
  \/ \E p \in Producers : OutputSend(p)
  \/ \E p \in Producers : OutputSendClosed(p)
  \/ \E p \in Producers : OutputDrop(p)
  \/ serveRecv
  \/ serveWrite
  \/ serveRangeEnd
  \/ serveClose
  \/ FlushCall
  \/ FlushRecv
  \/ FlushWrite
  \/ FlushChanClosed
  \/ FlushDefault
  \/ CloseCall
  \/ CloseReturn

Spec == Init /\ [][Next]_vars

\* a step of the goroutine that is inside Flush
FlushStep == FlushRecv \/ FlushWrite \/ FlushChanClosed \/ FlushDefault

\* the goroutine that called Flush keeps being scheduled; nothing is assumed
\* about the producers or the drain task
FlushFairSpec == Init /\ [][Next]_vars /\ WF_vars(FlushStep)

(* ---- Close with no Output call running beside it ---- *)
\* an Output call that begins before Close is called
OutputBeforeClose(p, lvl) == closeCalls = 0 /\ OutputStart(p, lvl)
\* Close called while no Output call is in progress
CloseCallQuiet == (\A p \in Producers : pc[p] = "idle") /\ CloseCall
\* a step of the drain goroutine
ServeStep == serveRecv \/ serveWrite \/ serveRangeEnd \/ serveClose
\* a step of the goroutine that calls Flush and Close
CallerStep == FlushStep \/ CloseReturn

QuietCloseNext ==
  \/ \E p \in Producers : \E lvl \in SpecLevels : OutputBeforeClose(p, lvl)
  \/ \E p \in Producers : OutputSend(p)
  \/ serveRecv
  \/ serveWrite
  \/ serveRangeEnd
  \/ serveClose
  \/ FlushCall
  \/ FlushRecv
  \/ FlushWrite
  \/ FlushChanClosed
  \/ FlushDefault
  \/ CloseCallQuiet
  \/ CloseReturn

\* sink writes complete, and the drain goroutine and the caller are scheduled fairly
QuietCloseSpec ==
  /\ Init
  /\ [][QuietCloseNext]_vars
  /\ WF_vars(ServeStep)
  /\ WF_vars(CallerStep)

TypeOK ==
  /\ kind \in Kinds
  /\ Len(ch) <= ChanCap
  /\ servePc \in {"none", "recv", "write", "close", "done"}
  /\ ctlPc \in {"idle", "flush", "flushWrite", "closeWait", "panic"}

(* ---- level filtering across the three handler types ---- *)
\* any handler type, constructed with any threshold; producers log at any level
LevelInit ==
  /\ InitHandler(Kinds, Levels)
  /\ LoggerIdle(<<>>)
  /\ FanIdle
  /\ LockIdle
  /\ NameIdle
  /\ FileIdle
  /\ ErrIdle
  /\ FmtIdle
  /\ CbIdle
  /\ RetryIdle

LevelNext ==
  \/ \E p \in Producers : \E lvl \in Levels : OutputStart(p, lvl)
  \/ \E p \in Producers : \E lvl \in Levels : SyncOutput(p, lvl)
  \/ \E p \in Producers : OutputSend(p)
  \/ serveRecv
  \/ serveWrite

LevelSpec == LevelInit /\ [][LevelNext]_vars

(* ---- baseLogger.Close over a list of handlers ---- *)
\* what a handler's Close returns: nil or one of two distinct errors
CloseResults == {"nil", "e1", "e2"}
HandlerLists == UNION {[1..n -> CloseResults] : n \in 0..MaxHandlers}

\* NewLogger(handlers...): no handlers means one ConsoleHandler, whose Close
\* returns nil
NewLogger(hs) == IF Len(hs) = 0 THEN <<"nil">> ELSE hs

NoReturn == [kind |-> "none", Errors |-> <<>>]

LoggerInit ==
  /\ InitHandler({"console"}, {InfoLevel})
  /\ \E hs \in HandlerLists :
       /\ handlers = NewLogger(hs)
       /\ hCloseCalls = [i \in 1..Len(NewLogger(hs)) |-> 0]
  /\ lgPc = "idle"
  /\ lgIdx = 0
  /\ lgErrors = <<>>
  /\ lgRet = NoReturn
  /\ lgCalls = 0
  /\ FanIdle
  /\ LockIdle
  /\ NameIdle
  /\ FileIdle
  /\ ErrIdle
  /\ FmtIdle
  /\ CbIdle
  /\ RetryIdle

\* l.mu.RLock(); var errors []error
LoggerCloseCall ==
  /\ lgPc = "idle"
  /\ lgCalls < MaxLoggerCloses
  /\ lgCalls' = lgCalls + 1
  /\ lgPc' = "loop"
  /\ lgIdx' = 1
  /\ lgErrors' = <<>>
  /\ lgRet' = NoReturn
  /\ UNCHANGED <<handlers, hCloseCalls>>
  /\ UNCHANGED <<handlerVars, producerVars, ctlVars, extVars>>

\* mutation: leave the loop at the first handler whose Close fails
LoggerCloseIterStopAtFirstError ==
  /\ lgPc = "loop"
  /\ lgIdx <= Len(handlers)
  /\ hCloseCalls' = [hCloseCalls EXCEPT ![lgIdx] = @ + 1]
  /\ lgErrors' = IF handlers[lgIdx] # "nil"
                   THEN Append(lgErrors, handlers[lgIdx])
                   ELSE lgErrors
  /\ lgIdx' = IF handlers[lgIdx] # "nil" THEN Len(handlers) + 1 ELSE lgIdx + 1
  /\ UNCHANGED <<handlers, lgPc, lgRet, lgCalls>>
  /\ UNCHANGED <<handlerVars, producerVars, ctlVars, extVars>>

\* one iteration: if err := handler.Close(); err != nil { errors = append(...) }
LoggerCloseIter ==
  /\ lgPc = "loop"
  /\ lgIdx <= Len(handlers)
  /\ hCloseCalls' = [hCloseCalls EXCEPT ![lgIdx] = @ + 1]
  /\ lgErrors' = IF handlers[lgIdx] # "nil"
                   THEN Append(lgErrors, handlers[lgIdx])
                   ELSE lgErrors
  /\ lgIdx' = lgIdx + 1
  /\ UNCHANGED <<handlers, lgPc, lgRet, lgCalls>>
  /\ UNCHANGED <<handlerVars, producerVars, ctlVars, extVars>>

\* if len(errors) > 0 { return &MultiError{Errors: errors} }; return nil
LoggerCloseReturn ==
  /\ lgPc = "loop"
  /\ lgIdx > Len(handlers)
  /\ lgRet' = IF Len(lgErrors) > 0
                THEN [kind |-> "MultiError", Errors |-> lgErrors]
                ELSE [kind |-> "nil", Errors |-> <<>>]
  /\ lgPc' = "idle"
  /\ UNCHANGED <<handlers, hCloseCalls, lgIdx, lgErrors, lgCalls>>
  /\ UNCHANGED <<handlerVars, producerVars, ctlVars, extVars>>

LoggerNext ==
  \/ LoggerCloseCall
  \/ LoggerCloseIter
  \/ LoggerCloseReturn

LoggerSpec == LoggerInit /\ [][LoggerNext]_vars

(* ---- baseLogger fan-out: log methods, SetLevel, SetOutput, AddOutputs, Flush ---- *)
\* a handler method invocation, as the handler sees it
HCall(m, lvl, ctx, arg) == [method |-> m, level |-> lvl, ctx |-> ctx, arg |-> arg]
NoLevel == 0 - 1

\* l.output(level, ctx, format, args...): handler.Output(level, ctx, format, args...)
output(lvl, ctx, format) == HCall("Output", lvl, ctx, format)

CtxTrace(ctx, format) == output(TraceLevel, ctx, format)
CtxDebug(ctx, format) == output(DebugLevel, ctx, format)
CtxInfo(ctx, format) == output(InfoLevel, ctx, format)
\* mutation: the context is not passed on (as in the legacy logger type)
CtxWarnNilCtx(ctx, format) == output(WarnLevel, "nil", format)
CtxWarn(ctx, format) == output(WarnLevel, ctx, format)
CtxError(ctx, format) == output(ErrorLevel, ctx, format)
CtxFatal(ctx, format) == output(FatalLevel, ctx, format)
CtxPanic(ctx, format) == output(PanicLevel, ctx, format)

\* the methods without a context argument pass context.TODO()
Trace(format) == CtxTrace("TODO", format)
Debug(format) == CtxDebug("TODO", format)
Info(format) == CtxInfo("TODO", format)
Warn(format) == CtxWarn("TODO", format)
Error(format) == CtxError("TODO", format)
Fatal(format) == CtxFatal("TODO", format)
Panic(format) == CtxPanic("TODO", format)

LogMethods == {"Trace", "Debug", "Info", "Warn", "Error", "Fatal", "Panic"}
CtxMethods == {"CtxTrace", "CtxDebug", "CtxInfo", "CtxWarn", "CtxError",
               "CtxFatal", "CtxPanic"}
Ctxs == {"ctx1", "ctx2"}
Formats == {<<"fmt1">>}
Writers == {"w1", "w2"}
WriterLists == {<<>>, <<"w1">>, <<"w1", "w2">>}

Req(m, lvl, ctx, arg) == [method |-> m, level |-> lvl, ctx |-> ctx, arg |-> arg]

\* the calls a user of the Logger interface can make
Requests ==
  {Req(m, NoLevel, "none", f) : m \in LogMethods, f \in Formats}
    \cup {Req(m, NoLevel, c, f) : m \in CtxMethods, c \in Ctxs, f \in Formats}
    \cup {Req("SetLevel", l, "none", <<>>) : l \in Levels}
    \cup {Req("SetOutput", NoLevel, "none", <<w>>) : w \in Writers}
    \cup {Req("AddOutputs", NoLevel, "none", ws) : ws \in WriterLists}
    \cup {Req("Flush", NoLevel, "none", <<>>)}

\* what the called baseLogger method invokes on each handler
HandlerCallOf(r) ==
  CASE r.method = "Trace" -> Trace(r.arg)
    [] r.method = "Debug" -> Debug(r.arg)
    [] r.method = "Info" -> Info(r.arg)
    [] r.method = "Warn" -> Warn(r.arg)
    [] r.method = "Error" -> Error(r.arg)
    [] r.method = "Fatal" -> Fatal(r.arg)
    [] r.method = "Panic" -> Panic(r.arg)
    [] r.method = "CtxTrace" -> CtxTrace(r.ctx, r.arg)
    [] r.method = "CtxDebug" -> CtxDebug(r.ctx, r.arg)
    [] r.method = "CtxInfo" -> CtxInfo(r.ctx, r.arg)
    [] r.method = "CtxWarn" -> CtxWarn(r.ctx, r.arg)
    [] r.method = "CtxError" -> CtxError(r.ctx, r.arg)
    [] r.method = "CtxFatal" -> CtxFatal(r.ctx, r.arg)
    [] r.method = "CtxPanic" -> CtxPanic(r.ctx, r.arg)
    [] r.method = "SetLevel" -> HCall("SetLevel", r.level, "none", <<>>)
    [] r.method = "SetOutput" -> HCall("SetOutput", NoLevel, "none", r.arg)
    [] r.method = "AddOutputs" -> HCall("AddOutputs", NoLevel, "none", r.arg)
    [] r.method = "Flush" -> HCall("Flush", NoLevel, "none", <<>>)

\* handler lists whose Close results play no role here
PlainHandlerLists == UNION {[1..n -> {"nil"}] : n \in 0..MaxHandlers}

FanoutInit ==
  /\ InitHandler({"console"}, {InfoLevel})
  /\ \E hs \in PlainHandlerLists : LoggerIdle(NewLogger(hs))
  /\ FanIdle
  /\ LockIdle
  /\ NameIdle
  /\ FileIdle
  /\ ErrIdle
  /\ FmtIdle
  /\ CbIdle
  /\ RetryIdle

\* the method takes l.mu (write lock for SetLevel, which also stores l.level)
LoggerOpCall(r) ==
  /\ lgPc = "idle"
  /\ lgOps < MaxLoggerOps
  /\ lgOps' = lgOps + 1
  /\ lgReq' = r
  /\ hLog' = <<>>
  /\ lgLevel' = IF r.method = "SetLevel" THEN r.level ELSE lgLevel
  /\ lgPc' = "fan"
  /\ lgIdx' = 1
  /\ UNCHANGED <<handlers, fanFrame>>

\* one iteration of "for _, handler := range l.handlers"
LoggerOpIter ==
  /\ lgPc = "fan"
  /\ lgIdx <= Len(handlers)
  /\ hLog' = Append(hLog, [h |-> lgIdx, call |-> HandlerCallOf(lgReq)])
  /\ lgIdx' = lgIdx + 1
  /\ UNCHANGED <<handlers, lgPc, lgLevel, lgReq, lgOps, fanFrame>>

\* the loop is over, the deferred unlock runs
LoggerOpReturn ==
  /\ lgPc = "fan"
  /\ lgIdx > Len(handlers)
  /\ lgPc' = "idle"
  /\ UNCHANGED <<handlers, lgIdx, fanVars, fanFrame>>

FanoutNext ==
  \/ \E r \in Requests : LoggerOpCall(r)
  \/ LoggerOpIter
  \/ LoggerOpReturn

FanoutSpec == FanoutInit /\ [][FanoutNext]_vars

(* ---- time.Time in UTC: a day number (days since 1970-01-01) and the second of the day ---- *)
SecPerHour == 3600
SecPerDay == 86400

\* time.Date(y, m, d, 0, 0, 0, 0, time.UTC) as a day number; d may lie outside
\* the month and is normalised, as time.Date does
DaysFromCivil(y, m, d) ==
  LET yy == IF m <= 2 THEN y - 1 ELSE y
      era == yy \div 400
      yoe == yy - era * 400
      mp == IF m > 2 THEN m - 3 ELSE m + 9
      doy == ((153 * mp + 2) \div 5) + d - 1
      doe == yoe * 365 + (yoe \div 4) - (yoe \div 100) + doy
  IN  era * 146097 + doe - 719468

\* t.Date(): year, month and day of a day number
CivilFromDays(z0) ==
  LET z == z0 + 719468
      era == z \div 146097
      doe == z - era * 146097
      yoe == (doe - (doe \div 1460) + (doe \div 36524) - (doe \div 146096)) \div 365
      doy == doe - (365 * yoe + (yoe \div 4) - (yoe \div 100))
      mp == (5 * doy + 2) \div 153
      dd == doy - ((153 * mp + 2) \div 5) + 1
      mm == IF mp < 10 THEN mp + 3 ELSE mp - 9
  IN  [year |-> IF mm <= 2 THEN yoe + era * 400 + 1 ELSE yoe + era * 400,
       month |-> mm, day |-> dd]

At(y, m, d, hh, mi, ss) == [d |-> DaysFromCivil(y, m, d), s |-> hh * SecPerHour + mi * 60 + ss]

\* t.Weekday(), Sunday = 0; 1970-01-01 was a Thursday
Weekday(t) == (t.d + 4) % 7

\* t.After(u)
After(t, u) == t.d > u.d \/ (t.d = u.d /\ t.s > u.s)

\* t.Truncate(time.Hour): hours and days divide the time elapsed since the zero
\* time evenly, so the rounding acts on the second of the day
TruncateHour(t) == [d |-> t.d, s |-> t.s - (t.s % SecPerHour)]
\* t.Truncate(24 * time.Hour)
TruncateDay(t) == [d |-> t.d, s |-> 0]
\* t.Add(time.Hour) of a time on the hour
AddHour(t) == IF t.s + SecPerHour >= SecPerDay
              THEN [d |-> t.d + 1, s |-> t.s + SecPerHour - SecPerDay]
              ELSE [d |-> t.d, s |-> t.s + SecPerHour]
AddDays(t, n) == [d |-> t.d + n, s |-> t.s]

\* t.AddDate(years, months, 0)
AddDate(t, years, months) ==
  LET c == CivilFromDays(t.d)
      m0 == c.month - 1 + months
  IN  [d |-> DaysFromCivil(c.year + years + (m0 \div 12), (m0 % 12) + 1, c.day), s |-> t.s]

\* t.ISOWeek(): the year and week of the Thursday of t's week
ISOWeek(t) ==
  LET wd == (Weekday(t) + 6) % 7
      thu == t.d - wd + 3
      c == CivilFromDays(thu)
      yday == thu - DaysFromCivil(c.year, 1, 1)
  IN  [year |-> c.year, week |-> (yday \div 7) + 1]

(* ---- FileHandler rotation (file handler source) ---- *)
RotationNone == 0
RotationHourly == 1
RotationDaily == 2
RotationWeekly == 3
RotationMonthly == 4
Rotations == {RotationNone, RotationHourly, RotationDaily, RotationWeekly, RotationMonthly}

startOfWeek(t) ==
  LET weekday == IF Weekday(t) = 0 THEN 7 ELSE Weekday(t)
      daysToSubtract == weekday - 1
      c == CivilFromDays(t.d)
  IN  [d |-> DaysFromCivil(c.year, c.month, c.day - daysToSubtract), s |-> 0]

startOfMonth(t) ==
  LET c == CivilFromDays(t.d)
  IN  [d |-> DaysFromCivil(c.year, c.month, 1), s |-> 0]

\* mutation: RotationNone is treated like a daily rotation
calculateNextRotationTimeNoDefault(rot, currentTime) ==
  CASE rot = RotationHourly -> AddHour(TruncateHour(currentTime))
    [] rot = RotationWeekly -> AddDays(startOfWeek(currentTime), 7)
    [] rot = RotationMonthly -> AddDate(startOfMonth(currentTime), 0, 1)
    [] OTHER -> AddDays(TruncateDay(currentTime), 1)
calculateNextRotationTime(rot, currentTime) ==
  CASE rot = RotationHourly -> AddHour(TruncateHour(currentTime))
    [] rot = RotationDaily -> AddDays(TruncateDay(currentTime), 1)
    [] rot = RotationWeekly -> AddDays(startOfWeek(currentTime), 7)
    [] rot = RotationMonthly -> AddDate(startOfMonth(currentTime), 0, 1)
    [] OTHER -> AddDate(currentTime, 100, 0)

\* a file name: base, the timestamp fields put between base and extension
\* (none when the configured name is used as it is), extension
FileName(stamp) == [base |-> "app", stamp |-> stamp, ext |-> ".log"]

formatFilename(rot, now) ==
  LET c == CivilFromDays(now.d)
  IN  CASE rot = RotationNone -> FileName(<<>>)
        [] rot = RotationHourly -> FileName(<<c.year, c.month, c.day, now.s \div SecPerHour>>)
        [] rot = RotationDaily -> FileName(<<c.year, c.month, c.day>>)
        [] rot = RotationWeekly -> FileName(<<ISOWeek(now).year, ISOWeek(now).week>>)
        [] rot = RotationMonthly -> FileName(<<c.year, c.month>>)

\* the clock readings of a run: around the hour, day, week, month and year
\* boundaries that follow Sunday 2025-10-26 09:00, and a century later
Instants ==
  {At(2025, 10, 26, 9, 0, 0), At(2025, 10, 26, 9, 30, 0), At(2025, 10, 26, 9, 45, 0),
   At(2025, 10, 26, 10, 0, 0), At(2025, 10, 26, 10, 0, 1), At(2025, 10, 26, 23, 0, 0),
   At(2025, 10, 26, 23, 59, 59), At(2025, 10, 27, 0, 0, 0), At(2025, 10, 27, 0, 0, 1),
   At(2025, 10, 27, 9, 0, 0), At(2025, 10, 31, 23, 59, 59), At(2025, 11, 1, 0, 0, 0),
   At(2025, 11, 1, 0, 0, 1), At(2025, 11, 3, 0, 0, 0), At(2025, 12, 29, 0, 0, 1),
   At(2026, 1, 1, 0, 0, 1), At(2124, 10, 26, 9, 0, 0), At(2125, 10, 26, 9, 0, 1)}

\* a destination: an open file, or a writer given to SetOutput / AddOutputs
FileDest(name) == [kind |-> "file", name |-> name]
WriterDest(w) == [kind |-> "writer", name |-> [base |-> w, stamp |-> <<>>, ext |-> ""]]

\* mutation: openFile does not move nextRotationTime past the open time
openFileNextIsNow(rot, now) ==
  [filePath |-> formatFilename(rot, now),
   out |-> [isFile |-> TRUE, dests |-> {FileDest(formatFilename(rot, now))}],
   rotationTime |-> now,
   nextRotationTime |-> now]
\* openFile: h.filePath, h.out (the *os.File just opened), h.rotationTime and
\* h.nextRotationTime
openFile(rot, now) ==
  [filePath |-> formatFilename(rot, now),
   out |-> [isFile |-> TRUE, dests |-> {FileDest(formatFilename(rot, now))}],
   rotationTime |-> now,
   nextRotationTime |-> calculateNextRotationTime(rot, now)]

\* NewFileHandler: rotationTime is zero and out is nil, so tryRotate(time.Now())
\* opens the first file
FileInit ==
  /\ InitHandler({"console"}, {InfoLevel})
  /\ LoggerIdle(<<>>)
  /\ FanIdle
  /\ LockIdle
  /\ NameIdle
  /\ ErrIdle
  /\ FmtIdle
  /\ CbIdle
  /\ RetryIdle
  /\ \E rot \in Rotations, t0 \in Instants :
       /\ fhRotation = rot
       /\ fhNow = t0
       /\ fhOut = openFile(rot, t0).out
       /\ fhFilePath = openFile(rot, t0).filePath
       /\ fhRotationTime = openFile(rot, t0).rotationTime
       /\ fhNextRotationTime = openFile(rot, t0).nextRotationTime
       /\ fhOpen = {openFile(rot, t0).filePath}
       /\ fhT0 = t0
  /\ fhPc = "recv"
  /\ fhOps = 0
  /\ fhExp = {"file"}
  /\ fhCheck = NoCheck
  /\ fhWrite = NoWrite

\* mutation: the file is also rotated at the boundary itself
MustRotateAtBoundary(now) ==
  /\ ~(fhRotation = RotationNone \/ fhRotationTime = ZeroTime)
  /\ ~After(fhNextRotationTime, now)

\* tryRotate: the fast path (no rotation configured, or no file opened yet)
\* leaves an open file alone; otherwise the file is rotated when now is after
\* the boundary
MustRotate(now) ==
  /\ ~(fhRotation = RotationNone \/ fhRotationTime = ZeroTime)
  /\ After(now, fhNextRotationTime)

\* h.out is an *os.File on which Close has been called
OutIsClosedFile == fhOut.isFile /\ fhFilePath \notin fhOpen

\* rotate, first half: file.Close() on h.out if it is an *os.File.  The call
\* fails on a file that is already closed, or when the system says so
\* (closeOk false); the file counts as closed after the call either way.
RotateCloseFails(closeOk) == fhOut.isFile /\ (OutIsClosedFile \/ ~closeOk)

\* serve takes a message, reads the clock and calls tryRotate(time.Now()).
\* closeOk and openOk say whether the system lets file.Close() and
\* os.OpenFile succeed, should rotate call them.
FileTryRotate(now, closeOk, openOk) ==
  /\ fhPc = "recv"
  /\ fhOps < MaxFileOps
  /\ ~After(fhNow, now)
  /\ fhOps' = fhOps + 1
  /\ fhNow' = now
  /\ IF MustRotate(now) /\ ~RotateCloseFails(closeOk) /\ openOk
       THEN \* rotate: close the current *os.File, open the file for now
            /\ fhOpen' = (IF fhOut.isFile THEN fhOpen \ {fhFilePath} ELSE fhOpen)
                           \cup {openFile(fhRotation, now).filePath}
            /\ fhOut' = openFile(fhRotation, now).out
            /\ fhFilePath' = openFile(fhRotation, now).filePath
            /\ fhRotationTime' = openFile(fhRotation, now).rotationTime
            /\ fhNextRotationTime' = openFile(fhRotation, now).nextRotationTime
       ELSE \* no rotation, or rotate returns an error after its file.Close()
            /\ fhOpen' = IF MustRotate(now) /\ fhOut.isFile
                           THEN fhOpen \ {fhFilePath} ELSE fhOpen
            /\ UNCHANGED <<fhOut, fhFilePath, fhRotationTime, fhNextRotationTime>>
  /\ fhCheck' = [t |-> now, t0 |-> fhRotationTime,
                 rotated |-> MustRotate(now) /\ ~RotateCloseFails(closeOk) /\ openOk,
                 name |-> fhFilePath',
                 due |-> MustRotate(now),
                 err |-> MustRotate(now) /\ (RotateCloseFails(closeOk) \/ ~openOk),
                 openOk |-> openOk,
                 retry |-> fhCheck.err]
  /\ fhPc' = "write"
  /\ UNCHANGED <<fhRotation, fhT0, fhExp, fhWrite, fileFrame>>

\* the same with a file system that does not fail
FileServeCheck(now) == FileTryRotate(now, TRUE, TRUE)

\* serve writes the message to h.out, at the time it read for its check
FileServeWrite ==
  /\ fhPc = "write"
  /\ fhWrite' = [dests |-> fhOut.dests, exp |-> fhExp, t |-> fhCheck.t,
                 next |-> fhNextRotationTime]
  /\ fhPc' = "recv"
  /\ UNCHANGED <<fhRotation, fhNow, fhOut, fhFilePath, fhRotationTime,
                 fhNextRotationTime, fhOpen, fhOps, fhT0, fhExp, fhCheck, fileFrame>>

FileSetOutput(w) ==
  /\ fhPc \in {"recv", "write"}
  /\ fhOps < MaxFileOps
  /\ fhOps' = fhOps + 1
  /\ fhOut' = [isFile |-> FALSE, dests |-> {WriterDest(w)}]
  /\ fhExp' = {w}
  /\ UNCHANGED <<fhRotation, fhNow, fhFilePath, fhRotationTime, fhNextRotationTime,
                 fhOpen, fhPc, fhT0, fhCheck, fhWrite, fileFrame>>

\* io.MultiWriter(h.out, writers...); nothing happens for an empty list
FileAddOutputs(ws) ==
  /\ fhPc \in {"recv", "write"}
  /\ fhOps < MaxFileOps
  /\ fhOps' = fhOps + 1
  /\ fhOut' = IF Len(ws) = 0 THEN fhOut
              ELSE [isFile |-> FALSE,
                    dests |-> fhOut.dests \cup {WriterDest(ws[i]) : i \in 1..Len(ws)}]
  /\ fhExp' = fhExp \cup Range(ws)
  /\ UNCHANGED <<fhRotation, fhNow, fhFilePath, fhRotationTime, fhNextRotationTime,
                 fhOpen, fhPc, fhT0, fhCheck, fhWrite, fileFrame>>

FileNext ==
  \/ \E now \in Instants : FileServeCheck(now)
  \/ FileServeWrite
  \/ \E w \in Writers : FileSetOutput(w)
  \/ \E ws \in WriterLists : FileAddOutputs(ws)

FileSpec == FileInit /\ [][FileNext]_vars

(* ---- rotation on a file system that can fail ---- *)
FileErrNext ==
  \/ \E now \in Instants : \E closeOk \in BOOLEAN : \E openOk \in BOOLEAN :
       FileTryRotate(now, closeOk, openOk)
  \/ FileServeWrite
  \/ \E w \in Writers : FileSetOutput(w)
  \/ \E ws \in WriterLists : FileAddOutputs(ws)

FileErrSpec == FileInit /\ [][FileErrNext]_vars

(* ---- FileHandler.Flush beside the drain goroutine ---- *)
\* Flush (called by the user or by Close) takes a message from the channel
\* and calls h.Write(msg); the clock reads now
FileFlushWrite(now) ==
  /\ fhPc \in {"recv", "write"}
  /\ fhOps < MaxFileOps
  /\ ~After(fhNow, now)
  /\ fhOps' = fhOps + 1
  /\ fhNow' = now
  /\ fhWrite' = [dests |-> fhOut.dests, exp |-> fhExp, t |-> now,
                 next |-> fhNextRotationTime]
  /\ UNCHANGED <<fhRotation, fhOut, fhFilePath, fhRotationTime, fhNextRotationTime,
                 fhOpen, fhPc, fhT0, fhExp, fhCheck, fileFrame>>

FileFlushNext ==
  \/ \E now \in Instants : FileServeCheck(now)
  \/ FileServeWrite
  \/ \E w \in Writers : FileSetOutput(w)
  \/ \E ws \in WriterLists : FileAddOutputs(ws)
  \/ \E now \in Instants : FileFlushWrite(now)

FileFlushSpec == FileInit /\ [][FileFlushNext]_vars

(* ---- serve with a sink whose Write can fail ---- *)
\* mutation: serve leaves its loop when a write fails
PcAfterWriteExitOnError(ok) == IF ok THEN "recv" ELSE "close"
\* the error is printed on os.Stderr and the range loop goes on
PcAfterWrite(ok) == "recv"

\* h.Write(msg) returns nil (ok) or an error
serveWriteResult(ok) ==
  /\ ~Panicked
  /\ servePc = "write"
  /\ ok \/ diag < MaxWriteErrors
  /\ IF ok THEN Write(serveMsg) ELSE UNCHANGED <<sink, lateWrites>>
  /\ diag' = IF ok THEN diag ELSE diag + 1
  /\ attempts' = Append(attempts, [msg |-> serveMsg, ok |-> ok])
  /\ serveMsg' = NoMsg
  /\ servePc' = PcAfterWrite(ok)
  /\ UNCHANGED <<kind, cfgLevel, level, ch, chClosed, closed, started, serveStarts,
                 fileClosed, fileCloseCalls>>
  /\ UNCHANGED errFrame

\* the handler in use, not shut down: producers and the drain task
ErrNext ==
  \/ \E p \in Producers : \E lvl \in SpecLevels : OutputStart(p, lvl)
  \/ \E p \in Producers : OutputSend(p)
  \/ serveRecv
  \/ \E ok \in BOOLEAN : serveWriteResult(ok)

\* the drain goroutine is scheduled again and again
ErrSpec ==
  /\ Init
  /\ [][ErrNext]_vars
  /\ WF_vars(serveRecv)
  /\ WF_vars(\E ok \in BOOLEAN : serveWriteResult(ok))

(* ---- TextFormatter.Format; a string is the sequence of the pieces written ---- *)
\* Level.String()
LevelString(l) ==
  CASE l = TraceLevel -> "Trace"
    [] l = DebugLevel -> "Debug"
    [] l = InfoLevel -> "Info"
    [] l = WarnLevel -> "Warn"
    [] l = ErrorLevel -> "Error"
    [] l = FatalLevel -> "Fatal"
    [] l = PanicLevel -> "Panic"
    [] OTHER -> ""

\* Level.Color(), printed with fmt.Sprint
LevelColor(l) ==
  CASE l = TraceLevel -> "45"
    [] l = DebugLevel -> "39"
    [] l = InfoLevel -> "33"
    [] l = WarnLevel -> "148"
    [] l = ErrorLevel -> "161"
    [] l = FatalLevel -> "160"
    [] l = PanicLevel -> "196"
    [] OTHER -> "0"

\* a context: nil, or one that holds under LogIDKey nothing, a string, or a
\* value of another type
FmtCtxs ==
  {[nil |-> TRUE, set |-> FALSE, isString |-> FALSE, id |-> ""],
   [nil |-> FALSE, set |-> FALSE, isString |-> FALSE, id |-> ""],
   [nil |-> FALSE, set |-> TRUE, isString |-> TRUE, id |-> "req-42"],
   [nil |-> FALSE, set |-> TRUE, isString |-> TRUE, id |-> "ctx123"],
   [nil |-> FALSE, set |-> TRUE, isString |-> FALSE, id |-> "42"]}

\* getLogID
getLogID(ctx) ==
  IF ctx.nil THEN ""
  ELSE IF ctx.set /\ ctx.isString THEN ctx.id
  ELSE ""

\* fmt.Sprintf(format, args...): each %s verb takes the next argument
RECURSIVE Sprintf(_, _)
Sprintf(format, args) ==
  IF format = <<>>
    THEN IF args = <<>> THEN <<>> ELSE <<"%!(EXTRA string=">> \o args \o <<")">>
  ELSE IF Head(format) = "%s"
    THEN IF args = <<>>
           THEN <<"%!s(MISSING)">> \o Sprintf(Tail(format), args)
           ELSE <<Head(args)>> \o Sprintf(Tail(format), Tail(args))
  ELSE <<Head(format)>> \o Sprintf(Tail(format), args)

\* templates, split at their verbs, and argument lists
FmtTemplates == {<<"hello ", "%s">>, <<"hello">>, <<"test ", "%s">>, <<"100%">>}
FmtArgs == {<<>>, <<"world">>, <<"message">>}
\* time.Now().Format(time.RFC3339)
FmtTimestamps == {"2025-10-26T09:00:00Z"}

Format(color, lvl, ctx, format, args, now) ==
  (IF color THEN <<"\\033[38;5;", LevelColor(lvl), "m">> ELSE <<>>)
    \o <<now, " ">>
    \o <<"[", LevelString(lvl), "]", " ">>
    \o (IF ~ctx.nil /\ getLogID(ctx) # "" THEN <<getLogID(ctx), " ">> ELSE <<>>)
    \o (IF Len(args) > 0 THEN Sprintf(format, args) ELSE format)
    \o (IF color THEN <<"\\033[0m">> ELSE <<>>)
    \o <<"\n">>

FormatInit ==
  /\ InitHandler({"console"}, {InfoLevel})
  /\ LoggerIdle(<<>>)
  /\ FanIdle
  /\ LockIdle
  /\ NameIdle
  /\ FileIdle
  /\ ErrIdle
  /\ CbIdle
  /\ RetryIdle
  /\ fmtIn \in [color : BOOLEAN, level : Levels, ctx : FmtCtxs, format : FmtTemplates,
                args : FmtArgs, now : FmtTimestamps]
  /\ fmtOut = <<>>
  /\ fmtDone = FALSE

FormatCall ==
  /\ ~fmtDone
  /\ fmtIn # NoFmt
  /\ fmtOut' = Format(fmtIn.color, fmtIn.level, fmtIn.ctx, fmtIn.format, fmtIn.args,
                      fmtIn.now)
  /\ fmtDone' = TRUE
  /\ UNCHANGED <<fmtIn, fmtFrame>>

FormatNext == FormatCall

FormatSpec == FormatInit /\ [][FormatNext]_vars

(* ---- fetch.CircuitBreaker ---- *)
\* NewCircuitBreaker(config): Closed, counters zero, lastFailure the zero time
\* (it is read only in the Open state, after onFailure has set it)
CbInit ==
  /\ InitHandler({"console"}, {InfoLevel})
  /\ LoggerIdle(<<>>)
  /\ FanIdle
  /\ LockIdle
  /\ NameIdle
  /\ FileIdle
  /\ ErrIdle
  /\ FmtIdle
  /\ RetryIdle
  /\ cbState = StateClosed
  /\ failureCount = 0
  /\ successCount = 0
  /\ lastFailure = 0
  /\ failureThreshold \in 1..MaxThreshold
  /\ successThreshold \in 1..MaxThreshold
  /\ openTimeout = 1
  /\ cbNow = 0
  /\ cPc = [c \in Clients |-> "idle"]
  /\ cOp = [c \in Clients |-> "none"]
  /\ cRet = [c \in Clients |-> "none"]
  /\ cChk = [c \in Clients |-> NoChk]
  /\ cFn = [c \in Clients |-> FALSE]
  /\ cbOps = 0
  /\ streak = 0
  /\ hoSucc = 0
  /\ lastRec = NoRec

\* mutation: the threshold has to be exceeded
ExceedsThreshold(count, threshold) == count > threshold
\* atomic.AddInt32(&count, 1) >= threshold, count being the new value
ReachesThreshold(count, threshold) == count >= threshold

\* Allow under the read lock: "true", "false", or "upgrade" when the read lock
\* is given up to take the write lock
AllowCheck ==
  CASE cbState = StateClosed -> "true"
    [] cbState = StateHalfOpen -> "true"
    [] cbState = StateOpen ->
         IF cbNow - lastFailure > openTimeout THEN "upgrade" ELSE "false"
    [] OTHER -> "false"

\* onSuccess / onFailure: the new state, failureCount, successCount, lastFailure
onSuccess ==
  CASE cbState = StateClosed ->
         [state |-> cbState, fc |-> 0, sc |-> successCount, lf |-> lastFailure]
    [] cbState = StateHalfOpen ->
         IF ReachesThreshold(successCount + 1, successThreshold)
           THEN [state |-> StateClosed, fc |-> 0, sc |-> 0, lf |-> lastFailure]
           ELSE [state |-> cbState, fc |-> failureCount, sc |-> successCount + 1,
                 lf |-> lastFailure]
    [] OTHER ->
         [state |-> cbState, fc |-> failureCount, sc |-> successCount, lf |-> lastFailure]

onFailure ==
  CASE cbState \in {StateClosed, StateHalfOpen} ->
         IF ReachesThreshold(failureCount + 1, failureThreshold)
           THEN [state |-> StateOpen, fc |-> failureCount + 1, sc |-> successCount,
                 lf |-> cbNow]
           ELSE [state |-> cbState, fc |-> failureCount + 1, sc |-> successCount,
                 lf |-> lastFailure]
    [] OTHER ->
         [state |-> cbState, fc |-> failureCount, sc |-> successCount, lf |-> lastFailure]

\* RecordResult(success) under the write lock
RecordResult(success) ==
  LET r == IF success THEN onSuccess ELSE onFailure
  IN  /\ cbState' = r.state
      /\ failureCount' = r.fc
      /\ successCount' = r.sc
      /\ lastFailure' = r.lf
      /\ streak' = IF cbState # StateClosed THEN 0
                   ELSE IF success THEN 0 ELSE streak + 1
      /\ hoSucc' = IF cbState = StateHalfOpen /\ r.state = StateHalfOpen /\ success
                     THEN hoSucc + 1
                   ELSE IF cbState = StateHalfOpen /\ r.state = StateHalfOpen THEN hoSucc
                   ELSE 0
      /\ lastRec' = [pre |-> cbState, success |-> success, post |-> r.state,
                     fc |-> r.fc, sc |-> r.sc]

cbConfig == <<failureThreshold, successThreshold, openTimeout>>
cbShared == <<cbState, failureCount, successCount, lastFailure>>
cbHist == <<streak, hoSucc, lastRec>>

\* client c calls Allow(), or Execute(fn), which calls Allow() first
CallAllow(c, op) ==
  /\ cPc[c] = "idle"
  /\ cbOps < MaxCbOps
  /\ cbOps' = cbOps + 1
  /\ cOp' = [cOp EXCEPT ![c] = op]
  /\ cChk' = [cChk EXCEPT ![c] = [state |-> cbState, since |-> cbNow - lastFailure]]
  /\ cFn' = [cFn EXCEPT ![c] = FALSE]
  /\ cPc' = [cPc EXCEPT ![c] =
               CASE AllowCheck = "upgrade" -> "upgrade"
                 [] AllowCheck = "true" /\ op = "Execute" -> "fn"
                 [] OTHER -> "idle"]
  /\ cRet' = [cRet EXCEPT ![c] =
               CASE AllowCheck = "upgrade" -> "none"
                 [] AllowCheck = "true" /\ op = "Execute" -> "none"
                 [] AllowCheck = "true" -> "true"
                 [] op = "Execute" -> "CircuitBreakerError"
                 [] OTHER -> "false"]
  /\ UNCHANGED <<cbConfig, cbShared, cbHist, cbNow, cbFrame>>

\* Allow after RUnlock: Lock; state = StateHalfOpen; successCount = 0; Unlock
AllowUpgrade(c) ==
  /\ cPc[c] = "upgrade"
  /\ cbState' = StateHalfOpen
  /\ successCount' = 0
  /\ hoSucc' = IF cbState = StateHalfOpen THEN hoSucc ELSE 0
  /\ cPc' = [cPc EXCEPT ![c] = IF cOp[c] = "Execute" THEN "fn" ELSE "idle"]
  /\ cRet' = [cRet EXCEPT ![c] = IF cOp[c] = "Execute" THEN "none" ELSE "true"]
  /\ UNCHANGED <<cbConfig, failureCount, lastFailure, streak, lastRec, cbNow, cOp, cChk,
                 cFn, cbOps, cbFrame>>

\* Execute: err := fn(); cb.RecordResult(err == nil); return err
ExecuteRecord(c, success) ==
  /\ cPc[c] = "fn"
  /\ cFn' = [cFn EXCEPT ![c] = TRUE]
  /\ RecordResult(success)
  /\ cPc' = [cPc EXCEPT ![c] = "idle"]
  /\ cRet' = [cRet EXCEPT ![c] = IF success THEN "nil" ELSE "err"]
  /\ UNCHANGED <<cbConfig, cbNow, cOp, cChk, cbOps, cbFrame>>

\* client c calls RecordResult itself
CallRecordResult(c, success) ==
  /\ cPc[c] = "idle"
  /\ cbOps < MaxCbOps
  /\ cbOps' = cbOps + 1
  /\ cOp' = [cOp EXCEPT ![c] = "RecordResult"]
  /\ cFn' = [cFn EXCEPT ![c] = FALSE]
  /\ RecordResult(success)
  /\ cRet' = [cRet EXCEPT ![c] = "none"]
  /\ UNCHANGED <<cbConfig, cbNow, cPc, cChk, cbFrame>>

\* time passes
CbTick ==
  /\ cbNow < MaxTime
  /\ cbNow' = cbNow + 1
  /\ UNCHANGED <<cbConfig, cbShared, cbHist, cPc, cOp, cRet, cChk, cFn, cbOps, cbFrame>>

CbNext ==
  \/ \E c \in Clients : \E op \in {"Allow", "Execute"} : CallAllow(c, op)
  \/ \E c \in Clients : AllowUpgrade(c)
  \/ \E c \in Clients : \E success \in BOOLEAN : ExecuteRecord(c, success)
  \/ \E c \in Clients : \E success \in BOOLEAN : CallRecordResult(c, success)
  \/ CbTick

CbSpec == CbInit /\ [][CbNext]_vars

(* ---- fetch.WithRetry ---- *)
\* what fn can return: a status with a nil error, or an error; the content of
\* the n-th call is n
FnResults == {[status |-> 200, err |-> "nil"], [status |-> 404, err |-> "nil"],
              [status |-> 500, err |-> "nil"], [status |-> 503, err |-> "nil"],
              [status |-> 0, err |-> "err"]}
RetryOnSets == {{}, {500}, {500, 503}}

\* the locals of WithRetry are zero, the loop starts with attempt = 0
RetryInit ==
  /\ InitHandler({"console"}, {InfoLevel})
  /\ LoggerIdle(<<>>)
  /\ FanIdle
  /\ LockIdle
  /\ NameIdle
  /\ FileIdle
  /\ ErrIdle
  /\ FmtIdle
  /\ CbIdle
  /\ rMaxAttempts \in 0..MaxRetryAttempts
  /\ rRetryOn \in RetryOnSets
  /\ rPc = "loop"
  /\ rAttempt = 0
  /\ rLast = NoResult
  /\ rRet = NoResult
  /\ rOutcomes = <<>>

\* return lastStatusCode, lastContent, lastHeaders, &RetryableError{...}
RetryableReturn(last) == [status |-> last.status, content |-> last.content,
                          err |-> "RetryableError"]

\* one pass of the loop body: call fn, return on a result that needs no retry,
\* break after the last attempt, otherwise go to sleep
RetryAttempt(r) ==
  /\ rPc = "loop"
  /\ rAttempt < rMaxAttempts
  /\ LET content == Len(rOutcomes) + 1
         shouldRetry == r.status \in rRetryOn
         last == [status |-> r.status, content |-> content,
                  err |-> IF r.err = "nil" THEN "HTTPError" ELSE r.err]
     IN  /\ rOutcomes' = Append(rOutcomes, [status |-> r.status, content |-> content,
                                            err |-> r.err])
         /\ IF r.err = "nil" /\ ~shouldRetry
              THEN /\ rLast' = [last EXCEPT !.err = rLast.err]
                   /\ rRet' = [status |-> r.status, content |-> content, err |-> "nil"]
                   /\ rPc' = "done"
              ELSE /\ rLast' = last
                   /\ IF rAttempt = rMaxAttempts - 1
                        THEN /\ rRet' = RetryableReturn(last)
                             /\ rPc' = "done"
                        ELSE /\ rRet' = rRet
                             /\ rPc' = "sleep"
  /\ UNCHANGED <<rMaxAttempts, rRetryOn, rAttempt, retryFrame>>

\* time.Sleep(calculateBackoff(config, attempt)); attempt++
RetrySleep ==
  /\ rPc = "sleep"
  /\ rAttempt' = rAttempt + 1
  /\ rPc' = "loop"
  /\ UNCHANGED <<rMaxAttempts, rRetryOn, rLast, rRet, rOutcomes, retryFrame>>

\* the loop condition attempt < config.MaxAttempts is false
RetryLoopEnd ==
  /\ rPc = "loop"
  /\ ~(rAttempt < rMaxAttempts)
  /\ rRet' = RetryableReturn(rLast)
  /\ rPc' = "done"
  /\ UNCHANGED <<rMaxAttempts, rRetryOn, rAttempt, rLast, rOutcomes, retryFrame>>

RetryNext ==
  \/ \E r \in FnResults : RetryAttempt(r)
  \/ RetrySleep
  \/ RetryLoopEnd

RetrySpec == RetryInit /\ [][RetryNext]_vars

(* ---- the handler's sync.RWMutex and the fields it is meant to guard ---- *)
\* the methods that touch level, out or filePath
LockOps == {"SetLevel", "SetOutput", "AddOutputs", "Output", "Write", "Close",
            "GetCurrentFilePath", "rotate"}
\* ConsoleHandler has no file: its Close reads no field and it has no
\* GetCurrentFilePath and no rotation
ConsoleLockOps == {"SetLevel", "SetOutput", "AddOutputs", "Output", "Write"}

\* what the method does with h.mu before it touches the fields:
\* "Lock" (h.mu.Lock()), "RLock" (h.mu.RLock()) or "none"
LockOf(op) ==
  CASE op \in {"SetLevel", "SetOutput", "AddOutputs", "rotate"} -> "Lock"
    [] op \in {"Write", "GetCurrentFilePath"} -> "RLock"
    [] op \in {"Output", "Close"} -> "none"

\* the fields the method reads and the fields it assigns
ReadsOf(op) ==
  CASE op = "Output" -> {"level"}
    [] op \in {"AddOutputs", "Write", "Close", "rotate"} -> {"out"}
    [] op = "GetCurrentFilePath" -> {"filePath"}
    [] OTHER -> {}
WritesOf(op) ==
  CASE op = "SetLevel" -> {"level"}
    [] op \in {"SetOutput", "AddOutputs"} -> {"out"}
    [] op = "rotate" -> {"out", "filePath"}
    [] OTHER -> {}

LockInit ==
  /\ InitHandler(AsyncKinds, {InfoLevel})
  /\ LoggerIdle(<<>>)
  /\ FanIdle
  /\ FileIdle
  /\ ErrIdle
  /\ FmtIdle
  /\ CbIdle
  /\ RetryIdle
  /\ NameIdle
  /\ mu = [writer |-> 0, readers |-> {}]
  /\ lkPc = [g \in Lockers |-> "idle"]
  /\ lkOp = [g \in Lockers |-> "none"]
  /\ lkArg = [g \in Lockers |-> 0]
  /\ lkLevel = level
  /\ lkOut = IF kind = "file" THEN {"file"} ELSE {"stdout"}
  /\ lkFilePath = IF kind = "file" THEN 1 ELSE 0
  /\ lkOps = 0

\* goroutine g calls a method; arg is the level of SetLevel or the writer of
\* SetOutput / AddOutputs
LockCall(g, op, arg) ==
  /\ lkPc[g] = "idle"
  /\ lkOps < MaxLockOps
  /\ kind = "console" => op \in ConsoleLockOps
  /\ lkOps' = lkOps + 1
  /\ lkOp' = [lkOp EXCEPT ![g] = op]
  /\ lkArg' = [lkArg EXCEPT ![g] = arg]
  /\ lkPc' = [lkPc EXCEPT ![g] = IF LockOf(op) = "none" THEN "access" ELSE "lock"]
  /\ UNCHANGED <<mu, lkLevel, lkOut, lkFilePath, lockFrame>>

\* h.mu.Lock() returns when there is no writer and no reader; h.mu.RLock()
\* when there is no writer
LockAcquire(g) ==
  /\ lkPc[g] = "lock"
  /\ mu.writer = 0
  /\ IF LockOf(lkOp[g]) = "Lock"
       THEN /\ mu.readers = {}
            /\ mu' = [mu EXCEPT !.writer = g]
       ELSE mu' = [mu EXCEPT !.readers = @ \cup {g}]
  /\ lkPc' = [lkPc EXCEPT ![g] = "access"]
  /\ UNCHANGED <<lkOp, lkArg, lkLevel, lkOut, lkFilePath, lkOps, lockFrame>>

\* the method's reads and assignments of the fields
LockAccess(g) ==
  /\ lkPc[g] = "access"
  /\ lkLevel' = IF lkOp[g] = "SetLevel" THEN lkArg[g] ELSE lkLevel
  /\ lkOut' = CASE lkOp[g] = "SetOutput" -> {lkArg[g]}
                [] lkOp[g] = "AddOutputs" -> lkOut \cup {lkArg[g]}
                [] lkOp[g] = "rotate" -> {"file"}
                [] OTHER -> lkOut
  /\ lkFilePath' = IF lkOp[g] = "rotate" THEN lkFilePath + 1 ELSE lkFilePath
  /\ lkPc' = [lkPc EXCEPT ![g] = IF LockOf(lkOp[g]) = "none" THEN "idle" ELSE "unlock"]
  /\ UNCHANGED <<mu, lkOp, lkArg, lkOps, lockFrame>>

\* defer h.mu.Unlock() / h.mu.RUnlock()
LockRelease(g) ==
  /\ lkPc[g] = "unlock"
  /\ mu' = IF mu.writer = g THEN [mu EXCEPT !.writer = 0]
           ELSE [mu EXCEPT !.readers = @ \ {g}]
  /\ lkPc' = [lkPc EXCEPT ![g] = "idle"]
  /\ UNCHANGED <<lkOp, lkArg, lkLevel, lkOut, lkFilePath, lkOps, lockFrame>>

\* the arguments of the calls
LockArgs(op) ==
  CASE op = "SetLevel" -> {DebugLevel, WarnLevel}
    [] op \in {"SetOutput", "AddOutputs"} -> Writers
    [] OTHER -> {0}

LockNext ==
  \/ \E g \in Lockers : \E op \in LockOps : \E arg \in LockArgs(op) : LockCall(g, op, arg)
  \/ \E g \in Lockers : LockAcquire(g)
  \/ \E g \in Lockers : LockAccess(g)
  \/ \E g \in Lockers : LockRelease(g)

LockSpec == LockInit /\ [][LockNext]_vars

(* ---- rotation boundary and file name on a clock with a zone offset ---- *)
\* the wall-clock reading of instant t in a zone off seconds east of UTC, and
\* the instant of a wall-clock reading
InZone(t, off) ==
  [d |-> t.d + ((t.s + off) \div SecPerDay), s |-> (t.s + off) % SecPerDay]
FromZone(w, off) == InZone(w, 0 - off)

\* UTC, +05:30, -05:00 and +01:00
ZoneOffsets == {0, 19800, 0 - 18000, 3600}

\* calculateNextRotationTime for a time in a zone: Truncate works on the
\* absolute time, whatever the location; startOfWeek and startOfMonth use the
\* year, month, day and weekday of the time's location
calculateNextRotationTimeIn(off, rot, currentTime) ==
  IF rot \in {RotationWeekly, RotationMonthly}
    THEN FromZone(calculateNextRotationTime(rot, InZone(currentTime, off)), off)
    ELSE calculateNextRotationTime(rot, currentTime)

\* formatFilename: now.Format and now.ISOWeek use the time's location
formatFilenameIn(off, rot, now) == formatFilename(rot, InZone(now, off))

NameInit ==
  /\ InitHandler({"console"}, {InfoLevel})
  /\ LoggerIdle(<<>>)
  /\ FanIdle
  /\ LockIdle
  /\ FileIdle
  /\ ErrIdle
  /\ FmtIdle
  /\ CbIdle
  /\ RetryIdle
  /\ nmIn \in [off : ZoneOffsets, rot : Rotations \ {RotationNone}, t0 : Instants,
               t : Instants]
  /\ nmOut = NoNames
  /\ nmDone = FALSE

\* the file is opened at t0: its name and nextRotationTime; and the names
\* formatFilename gives at nextRotationTime and at t
NameCall ==
  /\ ~nmDone
  /\ nmOut' = [next |-> calculateNextRotationTimeIn(nmIn.off, nmIn.rot, nmIn.t0),
               name0 |-> formatFilenameIn(nmIn.off, nmIn.rot, nmIn.t0),
               nameNext |-> formatFilenameIn(nmIn.off, nmIn.rot,
                              calculateNextRotationTimeIn(nmIn.off, nmIn.rot, nmIn.t0)),
               nameT |-> formatFilenameIn(nmIn.off, nmIn.rot, nmIn.t)]
  /\ nmDone' = TRUE
  /\ UNCHANGED <<nmIn, nameFrame>>

NameNext == NameCall

NameSpec == NameInit /\ [][NameNext]_vars

(* ======================= properties of the handler ======================= *)

\* the last outcome recorded for producer p
LastResult(p) == IF result[p] = <<>> THEN "none" ELSE result[p][Len(result[p])]

\* C1  No-loss-before-close: once a Close call has returned, every message that
\* had been sent on h.ch before the first Close was invoked is in the sink.
C1_NoLossBeforeClose ==
  (kind \in AsyncKinds /\ closeReturns >= 1)
    => Range(enqAtClose) \subseteq Range(sink)

\* C2  Idempotent close: a second Close call on the same handler does not panic,
\* returns no error and does not close the underlying file a second time.
C2_IdempotentClose ==
  (kind \in AsyncKinds /\ closeCalls >= 2)
    => /\ ctlPc # "panic"
       /\ ~closeErr
       /\ fileCloseCalls <= 1

\* C3  Drop-after-close: an Output call (at an accepted level) that started after
\* Close had returned never panics and its message never reaches the channel or
\* the sink; it can only end as "dropped".
C3_DropAfterClose ==
  \A p \in Producers :
    (kind \in AsyncKinds /\ afterClose[p] /\ plvl[p] >= level)
      => /\ pc[p] # "panic"
         /\ CurMsg(p) \notin Range(enq)
         /\ CurMsg(p) \notin Range(sink)
         /\ (pc[p] = "idle" => LastResult(p) = "dropped")

\* C4  FIFO: the messages of one producer goroutine appear in the sink in the
\* order that goroutine submitted them.
C4_FIFO ==
  \A i \in 1..Len(sink) : \A j \in 1..Len(sink) :
    (i < j /\ sink[i][1] = sink[j][1]) => sink[i][2] < sink[j][2]

\* C5  Concurrent producers, single consumer: if Close was invoked after all
\* NumProducers goroutines had each completed MsgsPerProducer accepted Output
\* calls, then when Close has returned the sink holds exactly
\* NumProducers * MsgsPerProducer lines, each message once.
C5_ExactlyOncePerMessage ==
  ( /\ kind \in AsyncKinds
    /\ allDoneAtClose
    /\ Len(enqAtClose) = NumProducers * MsgsPerProducer
    /\ closeReturns >= 1 )
    => /\ Len(sink) = NumProducers * MsgsPerProducer
       /\ Cardinality(Range(sink)) = NumProducers * MsgsPerProducer

\* C6  Close waits for the drain task: once Close has returned on a handler whose
\* drain goroutine was started, that goroutine has no sink write left to perform
\* (it holds no received message it has yet to write), and no write has been
\* attempted on the log file after Close closed it.
C6_CloseWaitsForDrain ==
  (kind \in AsyncKinds /\ closeReturns >= 1 /\ started)
    => /\ servePc # "write"
       /\ lateWrites = 0

\* C7  After Close has been signalled (close(h.ch) has run), an Output call that
\* is inside its select leaves it only by returning with its message dropped.
C7_OutputDropsOnceCloseSignalled ==
  [][ \A p \in Producers :
        (chClosed /\ pc[p] = "select" /\ pc'[p] # "select")
          => (pc'[p] = "idle" /\ LastResult(p)' = "dropped") ]_vars

\* C8  Flush delivers what was queued: when a Flush call that no Output call
\* overlapped has returned, every message sent on h.ch before the call (fewer
\* than cap(h.ch) of them) is in the sink.
C8_FlushDelivers ==
  ( /\ kind \in AsyncKinds
    /\ flushDone
    /\ flushClean
    /\ Len(flushEnq) < ChanCap )
    => Range(flushEnq) \subseteq Range(sink)

(* ========================= level filtering ========================= *)

\* C9  Level filtering: a handler constructed with threshold cfgLevel drops
\* every message submitted below cfgLevel and accepts (queues, or for the
\* synchronous handler writes) every message submitted at cfgLevel or above.
C9_LevelFiltering ==
  \A p \in Producers :
    /\ pc[p] = "select" => plvl[p] >= cfgLevel
    /\ (pc[p] = "idle" /\ calls[p] > 0)
         => (LastResult(p) = "filtered" <=> plvl[p] < cfgLevel)

(* ========================= baseLogger.Close ========================= *)

NonNil(e) == e # "nil"

\* C10  When a baseLogger.Close call has returned, every registered handler has
\* received exactly one Close per Logger.Close call, the result is nil iff no
\* handler's Close returned an error, and otherwise it is a MultiError whose
\* Errors are exactly the non-nil handler errors in handler order.
C10_LoggerCloseAggregates ==
  (lgPc = "idle" /\ lgCalls >= 1)
    => /\ \A i \in 1..Len(handlers) : hCloseCalls[i] = lgCalls
       /\ lgRet.kind = "nil" <=> (\A i \in 1..Len(handlers) : handlers[i] = "nil")
       /\ lgRet.kind # "nil"
            => /\ lgRet.kind = "MultiError"
               /\ lgRet.Errors = SelectSeq(handlers, NonNil)

\* a Close call has returned on a logger whose first handler failed, whose
\* second succeeded and whose third failed with a different error
C10_Witness ==
  /\ lgPc = "idle"
  /\ lgCalls >= 1
  /\ Len(handlers) >= 3
  /\ handlers[1] = "e1"
  /\ handlers[2] = "nil"
  /\ handlers[3] = "e2"
  /\ lgRet.kind = "MultiError"
  /\ hCloseCalls[3] = lgCalls

(* ========================= baseLogger fan-out ========================= *)

\* the level a log method stands for, by its name
LevelNamed(m) ==
  CASE m \in {"Trace", "CtxTrace"} -> 0
    [] m \in {"Debug", "CtxDebug"} -> 1
    [] m \in {"Info", "CtxInfo"} -> 2
    [] m \in {"Warn", "CtxWarn"} -> 3
    [] m \in {"Error", "CtxError"} -> 4
    [] m \in {"Fatal", "CtxFatal"} -> 5
    [] m \in {"Panic", "CtxPanic"} -> 6

\* what a handler is expected to receive for a Logger call
ExpectedCall(r) ==
  IF r.method \in CtxMethods
    THEN [method |-> "Output", level |-> LevelNamed(r.method), ctx |-> r.ctx,
          arg |-> r.arg]
  ELSE IF r.method \in LogMethods
    THEN [method |-> "Output", level |-> LevelNamed(r.method), ctx |-> "TODO",
          arg |-> r.arg]
  ELSE [method |-> r.method, level |-> r.level, ctx |-> "none", arg |-> r.arg]

\* C11  Logger fan-out: the handler invocations made by a Logger call are, in
\* list order and once per handler, the matching handler method with the
\* call's level, context and arguments; when the call has returned every
\* registered handler has received it.
C11_LoggerFanOut ==
  /\ \A i \in 1..Len(hLog) :
       /\ hLog[i].h = i
       /\ hLog[i].call = ExpectedCall(lgReq)
  /\ Len(hLog) <= Len(handlers)
  /\ (lgPc = "idle" /\ lgReq # NoReq) => Len(hLog) = Len(handlers)

\* CtxWarn(ctx1, ...) has returned on a logger with three handlers
C11_Witness ==
  /\ lgPc = "idle"
  /\ lgReq.method = "CtxWarn"
  /\ lgReq.ctx = "ctx1"
  /\ Len(handlers) = 3
  /\ Len(hLog) = 3
  /\ hLog[3].call.level = WarnLevel

(* ================== FileHandler destinations and rotation ================== *)

\* a set of destinations with every log file shown as "file"
DestKinds(ds) == {IF x.kind = "file" THEN "file" ELSE x.name.base : x \in ds}

\* C12  Only SetOutput and AddOutputs determine where a written message goes:
\* a write reaches exactly the destinations the SetOutput / AddOutputs calls
\* made so far ask for (the log file until SetOutput is called); rotation
\* does not change them.
C12_DestinationsOnlyBySetOutput ==
  fhWrite # NoWrite => DestKinds(fhWrite.dests) = fhWrite.exp

\* the instants at which a new bucket of the interval starts
IsBoundary(rot, b) ==
  /\ b.s % 3600 = 0
  /\ rot # 1 => b.s = 0
  /\ rot = 3 => Weekday(b) = 1
  /\ rot = 4 => CivilFromDays(b.d).day = 1

\* the starts of the hours of t0's day and the next, or of the next 31 days
BoundaryCandidates(rot, t0) ==
  IF rot = 1 THEN {[d |-> t0.d + k, s |-> h * 3600] : k \in 0..1, h \in 0..23}
  ELSE {[d |-> t0.d + k, s |-> 0] : k \in 1..31}

\* a is strictly earlier than b
Earlier(a, b) == a.d < b.d \/ (a.d = b.d /\ a.s < b.s)

\* t is strictly after the first boundary following t0: some boundary lies
\* after t0 and before t
PastFirstBoundary(rot, t0, t) ==
  \E b \in BoundaryCandidates(rot, t0) :
    IsBoundary(rot, b) /\ Earlier(t0, b) /\ Earlier(b, t)

\* the ISO week of t: the year of its week's Thursday and the number of
\* Thursdays of that year up to it
WeekBucket(t) ==
  LET thu == t.d - ((Weekday(t) + 6) % 7) + 3
      y == CivilFromDays(thu).year
  IN  <<y, Cardinality({k \in 0..53 : CivilFromDays(thu - 7 * k).year = y})>>

\* the time bucket of t that the file name carries
Bucket(rot, t) ==
  LET c == CivilFromDays(t.d)
  IN  CASE rot = 1 -> <<c.year, c.month, c.day, t.s \div 3600>>
        [] rot = 2 -> <<c.year, c.month, c.day>>
        [] rot = 3 -> WeekBucket(t)
        [] rot = 4 -> <<c.year, c.month>>

\* C13  Rotation boundary: with an Hourly, Daily, Weekly or Monthly interval
\* and the current file opened at t0, the check at write time t rotates iff
\* t is strictly after the first boundary following t0, and the file opened
\* by the rotation is named with t's bucket.
C13_RotationBoundary ==
  (fhCheck # NoCheck /\ fhRotation # 0) =>
    /\ fhCheck.rotated <=> PastFirstBoundary(fhRotation, fhCheck.t0, fhCheck.t)
    /\ fhCheck.rotated =>
         /\ fhCheck.name.stamp = Bucket(fhRotation, fhCheck.t)
         /\ fhCheck.name.base = "app" /\ fhCheck.name.ext = ".log"
         /\ fhFilePath = fhCheck.name
         /\ fhCheck.name \in fhOpen

\* daily, opened 2025-10-26 09:00, checked at 2025-10-27 00:00:01: rotated to
\* the file of 2025-10-27
C13_Witness ==
  /\ fhRotation = RotationDaily
  /\ fhCheck.t0 = At(2025, 10, 26, 9, 0, 0)
  /\ fhCheck.t = At(2025, 10, 27, 0, 0, 1)
  /\ fhCheck.rotated
  /\ fhCheck.name.stamp = <<2025, 10, 27>>

\* C14  RotationNone: the open file and the file path (the configured name,
\* unmodified) stay the same for every write however far the clock advances,
\* and nextRotationTime is at least 99 years after the open time.
C14_RotationNoneKeepsFile ==
  fhRotation = 0 =>
    /\ fhFilePath = [base |-> "app", stamp |-> <<>>, ext |-> ".log"]
    /\ fhOpen = {fhFilePath}
    /\ fhRotationTime = fhT0
    /\ ~fhCheck.rotated
    /\ fhNextRotationTime.d - fhT0.d >= 99 * 366
    /\ (fhWrite # NoWrite /\ "file" \in fhWrite.exp) =>
         [kind |-> "file", name |-> fhFilePath] \in fhWrite.dests

\* a message was written a century after the file was opened
C14_Witness ==
  /\ fhRotation = RotationNone
  /\ fhT0 = At(2025, 10, 26, 9, 0, 0)
  /\ fhNow = At(2125, 10, 26, 9, 0, 1)
  /\ fhPc = "recv"
  /\ fhWrite # NoWrite
  /\ fhWrite.dests = {[kind |-> "file", name |-> fhFilePath]}

(* ========================= write errors ========================= *)

\* the messages of a sequence of write attempts
RECURSIVE AttemptMsgs(_)
AttemptMsgs(as) == IF as = <<>> THEN <<>> ELSE <<Head(as).msg>> \o AttemptMsgs(Tail(as))

\* the messages a producer can queue
AllMsgs == {<<p, i>> : p \in Producers, i \in 1..MsgsPerProducer}

\* C15  A failed sink write does not stop the pipeline: no Output caller sees
\* the error (none panics, every finished call was queued or filtered), the
\* drain task does not exit, and every queued message is dequeued and its
\* write attempted, in queue order, whether or not earlier writes failed.
C15_WriteErrorDoesNotStopPipeline ==
  /\ [](\A p \in Producers :
          /\ pc[p] # "panic"
          /\ \A i \in 1..Len(result[p]) : result[p][i] \in {"queued", "filtered"})
  /\ [](started => servePc \in {"recv", "write"})
  /\ [](AttemptMsgs(attempts) \o (IF servePc = "write" THEN <<serveMsg>> ELSE <<>>) \o ch
          = enq)
  /\ \A m \in AllMsgs :
       [](m \in Range(enq) => <>(m \in Range(AttemptMsgs(attempts))))

\* a write failed and a message queued behind it was written
C15_Witness ==
  /\ Len(attempts) = 2
  /\ ~attempts[1].ok
  /\ attempts[2].ok
  /\ sink = <<attempts[2].msg>>
  /\ diag = 1

(* ========================= TextFormatter.Format ========================= *)

\* the upper-case name of a level
UpperName(l) ==
  CASE l = 0 -> "TRACE" [] l = 1 -> "DEBUG" [] l = 2 -> "INFO" [] l = 3 -> "WARN"
    [] l = 4 -> "ERROR" [] l = 5 -> "FATAL" [] l = 6 -> "PANIC"

\* sub occurs in str as a run of consecutive pieces
Contains(str, sub) ==
  \E i \in 0..(Len(str) - Len(sub)) : \A j \in 1..Len(sub) : str[i + j] = sub[j]

\* the template with its arguments put in
Substituted(format, args) ==
  IF args = <<>> THEN format
  ELSE [i \in 1..Len(format) |-> IF format[i] = "%s" THEN args[1] ELSE format[i]]

\* C16  Format returns exactly one line, ending with a newline, that contains
\* the bracketed upper-case level name, the correlation id followed by one
\* space iff ctx carries a string under LogIDKey, and the template with the
\* arguments substituted (verbatim when there are none).
C16_FormatLine ==
  fmtDone =>
    /\ fmtOut[Len(fmtOut)] = "\n"
    /\ \A i \in 1..(Len(fmtOut) - 1) : fmtOut[i] # "\n"
    /\ Contains(fmtOut, <<"[", UpperName(fmtIn.level), "]">>)
    /\ (~fmtIn.ctx.nil /\ fmtIn.ctx.set /\ fmtIn.ctx.isString)
         <=> Contains(fmtOut, <<"]", " ", fmtIn.ctx.id, " ">>)
    /\ Contains(fmtOut, Substituted(fmtIn.format, fmtIn.args))

(* ========================= CircuitBreaker ========================= *)

\* client c's last Allow check found the circuit Open with OpenTimeout not elapsed
CheckedOpenInTime(c) ==
  /\ cOp[c] \in {"Allow", "Execute"}
  /\ cChk[c].state = 1
  /\ cChk[c].since <= openTimeout

\* C17  Circuit breaker rejection: after FailureThreshold failures in a row
\* recorded in the Closed state the circuit is Open; an Allow() made while it
\* is Open and OpenTimeout has not elapsed since the last failure (the one
\* cb.lastFailure holds) returns false, Execute(fn) returns a
\* CircuitBreakerError without invoking fn, and neither changes the state or
\* the counters.
C17_OpenRejects ==
  /\ [](cbState = 0 => streak < failureThreshold)
  /\ [](\A c \in Clients :
          CheckedOpenInTime(c) =>
            /\ cPc[c] = "idle"
            /\ ~cFn[c]
            /\ cRet[c] = IF cOp[c] = "Execute" THEN "CircuitBreakerError" ELSE "false")
  /\ [][\A c \in Clients :
          (cPc[c] = "idle" /\ cbOps' # cbOps /\ cOp'[c] \in {"Allow", "Execute"}
             /\ cbState = 1 /\ cbNow - lastFailure <= openTimeout)
            => UNCHANGED <<cbState, failureCount, successCount, lastFailure>>]_vars

\* the circuit opened after two failures and an Execute was rejected
C17_Witness ==
  /\ failureThreshold = 2
  /\ cbState = StateOpen
  /\ failureCount = 2
  /\ \E c \in Clients :
       /\ cOp[c] = "Execute"
       /\ cRet[c] = "CircuitBreakerError"
       /\ cChk[c].state = StateOpen
       /\ ~cFn[c]

\* C18  Circuit breaker recovery: an Allow() made once OpenTimeout has elapsed
\* since the last failure returns true with the circuit HalfOpen; in HalfOpen
\* SuccessThreshold successes close the circuit with both counters 0 and a
\* single failure opens it again; in Closed every success sets the failure
\* count to 0.
C18_Recovery ==
  /\ \A c \in Clients :
       (cOp[c] = "Allow" /\ cPc[c] = "idle" /\ cChk[c].state = 1
          /\ cChk[c].since > openTimeout) => cRet[c] = "true"
  /\ cbState = 2 => hoSucc < successThreshold
  /\ (lastRec.pre = 2 /\ lastRec.success /\ lastRec.post = 0) =>
       (lastRec.fc = 0 /\ lastRec.sc = 0)
  /\ (lastRec.pre = 2 /\ ~lastRec.success) => lastRec.post = 1
  /\ (lastRec.pre = 0 /\ lastRec.success) => lastRec.fc = 0

(* ========================= WithRetry ========================= *)

\* a result of fn that ends the retrying
Final(o) == o.err = "nil" /\ o.status \notin rRetryOn

MaxCallsAllowed == IF rMaxAttempts > 1 THEN rMaxAttempts ELSE 1

\* C19  WithRetry calls fn at least once and at most max(1, MaxAttempts)
\* times; it returns the first result with a nil error and a status outside
\* RetryOnStatus, with a nil error and no further call; when no attempt gives
\* such a result it makes exactly max(1, MaxAttempts) calls and returns the
\* last attempt's status and content with a RetryableError.
C19_WithRetry ==
  /\ Len(rOutcomes) <= MaxCallsAllowed
  /\ \A i \in 1..(Len(rOutcomes) - 1) : ~Final(rOutcomes[i])
  /\ rPc = "done" =>
       /\ Len(rOutcomes) >= 1
       /\ LET o == rOutcomes[Len(rOutcomes)]
          IN  IF Final(o)
                THEN rRet = [status |-> o.status, content |-> o.content, err |-> "nil"]
                ELSE /\ Len(rOutcomes) = MaxCallsAllowed
                     /\ rRet = [status |-> o.status, content |-> o.content,
                                err |-> "RetryableError"]

(* ========================= lazy start of the drain task ========================= *)

\* C20  Lazy single start: whatever the interleaving of Output calls on one
\* handler, at most one drain task is ever started; it is started by the
\* first Output call, even one whose message is filtered out, and no drain
\* task exists before the first Output call.
C20_LazySingleStart ==
  kind \in AsyncKinds =>
    /\ serveStarts <= 1
    /\ serveStarts = 1 <=> (\E p \in Producers : calls[p] >= 1)
    /\ serveStarts = 0 => servePc = "none"
    /\ serveStarts = 1 => servePc # "none"

\* every producer has called Output, every call was filtered out, and one
\* drain task runs
C20_Witness ==
  /\ serveStarts = 1
  /\ servePc = "recv"
  /\ \A p \in Producers :
       /\ calls[p] >= 1
       /\ Len(result[p]) = calls[p]
       /\ \A i \in 1..Len(result[p]) : result[p][i] = "filtered"

(* ---- C21 ---- *)
\* a Flush call (its own, or the one inside Close) is running
FlushRunning == ctlPc \in {"flush", "flushWrite"}

\* C21: Flush is bounded.  A Flush call writes at most cap(h.ch) messages; it
\* is never blocked (some step of it is enabled while it runs); when its select
\* finds nothing buffered - channel empty or closed - its next step is the
\* return, with nothing written; and under fair scheduling of the caller alone
\* every Flush call returns, whatever the producers and the drain task do.
C21_FlushBounded ==
  /\ [](ctlI <= ChanCap /\ (ctlPc = "flush" => ctlI < ChanCap))
  /\ []((FlushRunning /\ ~Panicked) => ENABLED FlushStep)
  /\ [][(ctlPc = "flush" /\ ch = <<>> /\ ctlPc' # ctlPc)
         => (ctlPc' = FlushReturnPc /\ sink' = sink /\ ctlI' = ctlI)]_vars
  /\ [][(ctlPc = "flushWrite" /\ ctlI + 1 = ChanCap /\ ctlPc' # ctlPc)
         => ctlPc' = FlushReturnPc]_vars
  /\ (FlushRunning ~> (~FlushRunning \/ Panicked))

\* a Flush has returned after cap(h.ch) writes while the channel still holds a
\* message
C21_Witness ==
  /\ ctlPc = "idle"
  /\ flushDone
  /\ ctlI = ChanCap
  /\ ch # <<>>

(* ---- C22 ---- *)
\* C22: Close terminates.  With no Output call running beside it, the first
\* Close call of a ConsoleHandler or FileHandler returns, whatever the drain
\* goroutine was doing and however many messages were queued, and the
\* ConsoleHandler's Close returns nil.
C22_CloseTerminates ==
  /\ ((closeCalls = 1 /\ closeReturns = 0) ~> (closeReturns >= 1))
  /\ []((kind = "console" /\ closeReturns >= 1) => ~closeErr)
  /\ [](~Panicked \/ closeCalls > 1)

\* the first Close has returned after its Flush wrote cap(h.ch) messages, so
\* that the closed signal came from the drain goroutine
C22_Witness ==
  /\ closeCalls = 1
  /\ closeReturns = 1
  /\ ctlI = ChanCap
  /\ servePc = "done"

(* ---- C23 ---- *)
\* the drain goroutine takes a message and runs its rotation check
RotationCheckStep == fhPc = "recv" /\ fhPc' = "write"

C24_AtMostOneOpenFile == Cardinality(fhOpen) <= 1

(* ---- C25 ---- *)
\* Created, Running, Draining, Closed as 0..3
Phase ==
  IF closed THEN 3 ELSE IF chClosed THEN 2 ELSE IF started THEN 1 ELSE 0

\* C25: the lifecycle only moves forward.  The phase never decreases and the
\* closed signal, once raised, stays raised; and once a Close call has
\* returned no drain goroutine is started, none is still running, and no
\* message is accepted into the channel.
C25_LifecycleForward ==
  /\ [][Phase' >= Phase /\ (closed => closed')]_vars
  /\ [][closeReturns >= 1 => (serveStarts' = serveStarts /\ enq' = enq)]_vars
  /\ [](closeReturns >= 1 => servePc \in {"none", "done"})

(* ---- C26 ---- *)
\* goroutine g is inside a method's access to field f
Accessing(g, f) == lkPc[g] = "access" /\ f \in ReadsOf(lkOp[g]) \cup WritesOf(lkOp[g])
\* ... and that access assigns f
Assigning(g, f) == lkPc[g] = "access" /\ f \in WritesOf(lkOp[g])

\* C26: shared handler state is lock-guarded.  Whenever a goroutine is
\* reading or assigning level, out or filePath it holds h.mu - the write lock
\* when it assigns, the read or the write lock when it only reads - so that no
\* access of one goroutine overlaps an assignment of the same field by another.
C26_LockGuarded ==
  /\ \A g \in Lockers : \A f \in {"level", "out", "filePath"} :
       /\ Assigning(g, f) => mu.writer = g
       /\ Accessing(g, f) => (mu.writer = g \/ g \in mu.readers)
  /\ \A g1 \in Lockers : \A g2 \in Lockers \ {g1} :
       \A f \in {"level", "out", "filePath"} :
         ~(Assigning(g1, f) /\ Accessing(g2, f))

(* ---- C27 ---- *)
\* the last write went to a log file
WroteToFile == fhWrite # NoWrite /\ \E x \in fhWrite.dests : x.kind = "file"

\* C27: no stale-file writes.  With a rotation interval configured, a queued
\* message written to the log file - by the drain goroutine or by Flush - is
\* written at a time that is not after the nextRotationTime of that file.
C27_NoStaleFileWrite ==
  (WroteToFile /\ fhRotation # 0) => ~Earlier(fhWrite.next, fhWrite.t)

(* ---- C28 ---- *)
\* C28: rotation failures are recoverable.  After a failed rotation the
\* drain goroutine goes on to write the message and attempts the rotation
\* again on the next message; an attempt made when the new file can be opened
\* succeeds and leaves h.out on an open file.
C28_RotationRecovers ==
  fhCheck # NoCheck =>
    /\ fhCheck.err => fhPc \in {"recv", "write"}
    /\ fhCheck.retry => fhCheck.due
    /\ (fhCheck.retry /\ fhCheck.openOk) =>
         (fhCheck.rotated /\ ~fhCheck.err /\ ~OutIsClosedFile)

(* ---- C29 ---- *)
\* C29: file name and rotation boundary agree.  For a file opened at t0, in
\* any zone and for each of the four intervals, nextRotationTime is the
\* earliest instant after t0 whose file name differs from the name at t0: it
\* is after t0, the name at it differs, and the name at every t between t0
\* and it is the name at t0.  So a message the drain goroutine writes without
\* rotating (at a time t >= t0 not after nextRotationTime) goes to a file
\* that carries the message's own hour/day/week/month.
C29_NameAgreesWithBoundary ==
  nmDone =>
    /\ Earlier(nmIn.t0, nmOut.next)
    /\ nmOut.nameNext # nmOut.name0
    /\ (Earlier(nmIn.t0, nmIn.t) /\ Earlier(nmIn.t, nmOut.next)) => nmOut.nameT = nmOut.name0
    /\ (~Earlier(nmIn.t, nmIn.t0) /\ ~Earlier(nmOut.next, nmIn.t)) => nmOut.nameT = nmOut.name0

(* ---- C30 ---- *)
\* C30: under any interleaving of Allow, Execute and RecordResult calls the
\* state changes only Closed -> Open, Open -> HalfOpen, HalfOpen -> Closed
\* and HalfOpen -> Open, and every change to HalfOpen starts in Open at a
\* time when OpenTimeout has elapsed since the failure cb.lastFailure holds.
C30_StateTransitions ==
  [][/\ cbState' # cbState =>
          <<cbState, cbState'>> \in {<<0, 1>>, <<1, 2>>, <<2, 0>>, <<2, 1>>}
     /\ (cbState' = 2 /\ cbState # 2) =>
          (cbState = 1 /\ cbNow - lastFailure > openTimeout)]_vars

====
